---------------------------- MODULE Spec2Model ----------------------------
(***************************************************************************)
(* Verification model of the figure-skating jump analyzer: the two-pass    *)
(* cumulative rotation tracker (angleAnalysisService), the jump metrics    *)
(* engines (jumpMetricsService, manualJumpMetricsService) and the          *)
(* frame-by-frame analysis run (videoAnalysisService + analysisStore).     *)
(*                                                                         *)
(* Angles are whole degrees.  A rotation count is kept as its numerator in *)
(* degrees over the fixed denominator 360.  Time is counted in units of    *)
(* 1/30 s, the marker frame rate.                                          *)
(***************************************************************************)
EXTENDS Integers, Sequences, FiniteSets, TLC

VARIABLES
  (* rotation tracker harness *)
  series,          \* description of the input series fed to the tracker
  tracked,         \* the encodings whose series has been tracked
  cumulative,      \* per encoding: the tracker's output
  (* VideoAnalysisService *)
  isAnalyzing,     \* the service's private isAnalyzing flag
  abortController, \* "null", "live" or "aborted"
  runPc,           \* position of analyzeBothVideos and of its caller
  (* PoseDetectorService *)
  poseInitialized, \* isInitialized
  lastVideoTime,   \* lastVideoTime
  (* analysisStore *)
  analysis,        \* referenceAnalysis / userAnalysis
  storeIsAnalyzing,\* the store's isAnalyzing flag
  analysisError,   \* analysisError
  metrics,         \* referenceMetrics / userMetrics
  angles,          \* referenceAngles / userAngles
  manualMarkers,   \* manualMarkers
  analysisProgress,\* analysisProgress, in percent
  (* the two video elements *)
  duration,        \* duration of both videos, in 1/30 s
  currentTime,     \* currentTime, in 1/30 s
  paused,          \* paused attribute
  ended,           \* ended attribute
  evPlaying,       \* a 'playing' event is queued for the listener
  evEnded,         \* an 'ended' event is queued for the listener
  (* the closure of analyzeWithSlowPlayback, per video *)
  listening,       \* the event listeners are attached
  frameIndex,      \* frameIndex
  raf,             \* number of pending requestAnimationFrame(processFrame)
  awaiting,        \* detection results of processFrame calls at their await
  settled,         \* the returned promise: "pending" or "resolved"
  (* history *)
  reads,           \* readers started on a frame store, with its completeness
  raised,          \* error raised by the metrics engine in the run, per video
  cancelled,       \* the video under analysis when cancellation was requested
  inferredAfterCancel, \* a pose inference started after that request
  lateReference,   \* reference inference or frame write after the user loop started
  sampled,         \* per video: what detectPose returned, in sampling order
  threwAt,         \* per video: the sampling positions whose inference threw
  (* FrameMarkingWizard *)
  isOpen,          \* the wizard is shown
  currentStepIndex,\* index into WIZARD_STEPS
  currentFrame,    \* frame shown, counted at 30 fps
  videoLoaded,     \* the step's video has loaded its metadata
  wizardMarkers,   \* the wizard's own copy of the markers (its `markers` state)
  (* metrics engine harness *)
  angleOutputs,    \* what the calls of analyzeAngles returned, in order
  metricsOutputs,  \* what the calls of computeJumpMetrics returned or threw
  (* automatic jump detection harness *)
  signals,         \* the smoothed signals handed to fuseDetections
  candidates,      \* the results of the four detection methods
  fused,           \* null, or what fuseDetections returned
  (* jump height harness *)
  airTimeInput,    \* an air time, in 1/30 s
  heightOutputs,   \* what calculateJumpHeight returned for it
  (* history of further calls *)
  rejected,        \* a call of analyzeBothVideos threw 'Analysis already in progress'
  frameUpdates,    \* per video: the frame updates the store was asked for
  reruns           \* runs started after the first one

trackerVars == <<series, tracked, cumulative>>

serviceVars == <<isAnalyzing, abortController, runPc, poseInitialized, lastVideoTime>>

storeVars == <<analysis, storeIsAnalyzing, analysisError, metrics, angles, manualMarkers,
               analysisProgress>>

videoVars == <<duration, currentTime, paused, ended, evPlaying, evEnded>>

loopVars == <<listening, frameIndex, raf, awaiting, settled>>

historyVars == <<reads, raised, cancelled, inferredAfterCancel, lateReference, sampled,
                 threwAt>>

wizardVars == <<isOpen, currentStepIndex, currentFrame, videoLoaded, wizardMarkers>>

engineVars == <<angleOutputs, metricsOutputs>>

fusionVars == <<signals, candidates, fused>>

heightVars == <<airTimeInput, heightOutputs>>

auxVars == <<rejected, frameUpdates, reruns>>

pureVars == <<fusionVars, heightVars, auxVars>>

harnessVars == <<trackerVars, wizardVars, engineVars, pureVars>>

runVars == <<serviceVars, storeVars, videoVars, loopVars, historyVars>>

vars == <<harnessVars, runVars>>

\* a nullable value is <<>> (null) or <<v>>
NULL == <<>>

Some(v) == <<v>>

Val(o) == o[1]

Max(a, b) == IF a > b THEN a ELSE b

Min(a, b) == IF a < b THEN a ELSE b

Abs(x) == IF x < 0 THEN -x ELSE x

Sign(x) == IF x > 0 THEN 1 ELSE IF x < 0 THEN -1 ELSE 0

(***************************************************************************)
(* Bounds of the model                                                     *)
(***************************************************************************)
MaxLen == 3          \* longest free-form angle series
MaxSamples == 31     \* longest uniform synthetic rotation series
MaxDuration == 3     \* longest video, in 1/30 s
MaxChains == 2       \* most requestAnimationFrame callbacks pending per video
MaxFrames == 5       \* analysis frames of a stored analysis handed to the engines
MaxSignalFrames == 26 \* analysis frames of a video handed to the automatic detection
MaxAirTime == 60      \* longest air time handed to the height formula, in 1/30 s
MaxReruns == 1        \* most analysis runs started after an earlier one
RerunFrames == 3      \* analysis frames of the videos analysed again

(***************************************************************************)
(* angleAnalysisService.ts : cumulative rotation tracker                   *)
(***************************************************************************)
ROTATION_NOISE_THRESHOLD == 20

\* Pass 1 delta: the standard +-180 wraparound, two successive tests
WrapDelta(diff) ==
  LET d1 == IF diff > 180 THEN diff - 360 ELSE diff
  IN  IF d1 < -180 THEN d1 + 360 ELSE d1

\* Pass 1: net rotation = sum of the wrapped consecutive deltas
RECURSIVE NetRotationUpTo(_, _)
NetRotationUpTo(data, i) ==
  IF i < 2 THEN 0
  ELSE NetRotationUpTo(data, i - 1)
       + WrapDelta(data[i].angle - data[i - 1].angle)

NetRotation(data) == NetRotationUpTo(data, Len(data))

\* a faulty Pass 2 that accumulates the raw difference unchanged
ForcedDeltaRaw(angleDiff, isCCW, isCW) == angleDiff

\* Pass 2 delta: the raw difference forced into the primary direction when
\* it opposes it by more than the noise threshold
ForcedDelta(angleDiff, isCCW, isCW) ==
  IF isCCW
    THEN IF angleDiff < -ROTATION_NOISE_THRESHOLD
           THEN angleDiff + 360 ELSE angleDiff
    ELSE IF isCW
           THEN IF angleDiff > ROTATION_NOISE_THRESHOLD
                  THEN angleDiff - 360 ELSE angleDiff
           ELSE angleDiff

RECURSIVE CumulativeUpTo(_, _, _, _)
CumulativeUpTo(data, i, isCCW, isCW) ==
  IF i < 2 THEN 0
  ELSE CumulativeUpTo(data, i - 1, isCCW, isCW)
       + ForcedDelta(data[i].angle - data[i - 1].angle, isCCW, isCW)

calculateCumulativeRotation(shoulderRotationData) ==
  IF Len(shoulderRotationData) < 2 THEN <<>>
  ELSE
    LET netRotation == NetRotation(shoulderRotationData)
        isCCW == netRotation > 0
        isCW  == netRotation < 0
    IN  [i \in 1..Len(shoulderRotationData) |->
           [timestamp  |-> shoulderRotationData[i].timestamp,
            frameIndex |-> shoulderRotationData[i].frameIndex,
            angle      |-> CumulativeUpTo(shoulderRotationData, i, isCCW, isCW)]]

\* rotation over a whole series, in degrees (the count is this over 360)
TotalRotationDegrees(cum) == Abs(cum[Len(cum)].angle - cum[1].angle)

(***************************************************************************)
(* Inputs of the tracker harness                                           *)
(***************************************************************************)
Encodings == {"deg360", "deg180"}

\* an orientation m in [0,360) written in [0,360) or in (-180,180]
Encode(m, e) == IF e = "deg180" /\ m > 180 THEN m - 360 ELSE m

Normalize360(a) == a % 360

\* orientations of free-form series: around the 0/360 and 180 encoding
\* boundaries, spaced so that deltas fall on both sides of the noise
\* threshold and of the +-180 wraparound
Grid == {0, 10, 20, 30, 170, 180, 190, 200, 330, 340, 350}

FreeSeries ==
  UNION {[1..n -> Grid] : n \in 2..MaxLen}

UniformSteps == {24, 30, 36, 40, 45, 60, 72}
Starts == {0, 10}
GlitchAt == {2, 5, 11}

\* sample i (1-based) of a uniform counter-clockwise rotation, in [0,360)
UniformSample(i, step, start) == Normalize360(start + (i - 1) * step)

\* glitch = 0: no dropout; otherwise sample `glitch` is displaced by -300
\* degrees, renormalised into the encoding's range (renorm) or left raw
UniformSeriesInputs ==
  {[kind |-> "uniform", n |-> n, step |-> s, start |-> st,
    glitch |-> g, renorm |-> r,
    motion |-> [i \in 1..n |-> UniformSample(i, s, st)]] :
      n \in 2..MaxSamples, s \in UniformSteps, st \in Starts,
      g \in {0} \cup GlitchAt, r \in BOOLEAN}

SeriesInputs ==
  {[kind |-> "free", n |-> Len(m), step |-> 0, start |-> 0,
    glitch |-> 0, renorm |-> TRUE, motion |-> m] : m \in FreeSeries}
  \cup {u \in UniformSeriesInputs :
          /\ u.glitch < u.n
          /\ (u.glitch = 0 => u.renorm)}

SampleAngle(s, i, e) ==
  IF s.glitch # i THEN Encode(s.motion[i], e)
  ELSE IF s.renorm
         THEN Encode(Normalize360(s.motion[i] - 300), e)
         ELSE Encode(s.motion[i], e) - 300

\* the AngleData series handed to the tracker for encoding e
AngleSeries(s, e) ==
  [i \in 1..s.n |->
     [timestamp |-> i - 1, frameIndex |-> i - 1, angle |-> SampleAngle(s, i, e)]]

\* every sample lies in the range of encoding e
InEncodingRange(data, e) ==
  \A i \in 1..Len(data) :
    IF e = "deg360" THEN data[i].angle >= 0 /\ data[i].angle < 360
    ELSE data[i].angle > -180 /\ data[i].angle <= 180


(***************************************************************************)
(* analysisStore : the landmark frame store of one video                   *)
(***************************************************************************)
Videos == {"reference", "user"}

\* analysis frames per 1/30 s: the caller analyses at 15 fps, markers and
\* sample videos are 30 fps
TicksPerFrame == 2

NoAnalysis ==
  [exists |-> FALSE, frames |-> <<>>, totalFrames |-> 0,
   processedFrames |-> 0, isComplete |-> FALSE]

\* initializeVideoAnalysis: ceil(duration * fps) unprocessed frames at their
\* nominal timestamps i / fps
initializeVideoAnalysis(dur) ==
  LET totalFrames == (dur + TicksPerFrame - 1) \div TicksPerFrame
  IN  [exists |-> TRUE,
       frames |-> [i \in 1..totalFrames |->
                     [timestamp |-> (i - 1) * TicksPerFrame,
                      landmarks |-> NULL, worldLandmarks |-> NULL,
                      processed |-> FALSE]],
       totalFrames |-> totalFrames,
       processedFrames |-> 0,
       isComplete |-> FALSE]

\* a faulty store that drops a frame without landmarks instead of storing it
updateFrameUnlessNull(a, idx, landmarks, actualTimestamp, worldLandmarks) ==
  IF ~a.exists \/ idx >= Len(a.frames) THEN a
  ELSE IF a.frames[idx + 1].processed \/ landmarks = NULL THEN a
  ELSE [a EXCEPT !.frames[idx + 1] =
                    [timestamp |-> actualTimestamp, landmarks |-> landmarks,
                     worldLandmarks |-> worldLandmarks, processed |-> TRUE],
                 !.processedFrames = @ + 1]

\* a faulty store that writes a slot whether or not it is processed already
updateFrameEveryTime(a, idx, landmarks, actualTimestamp, worldLandmarks) ==
  IF ~a.exists \/ idx >= Len(a.frames) THEN a
  ELSE [a EXCEPT !.frames[idx + 1] =
                    [timestamp |-> actualTimestamp, landmarks |-> landmarks,
                     worldLandmarks |-> worldLandmarks, processed |-> TRUE],
                 !.processedFrames = @ + 1]

\* updateFrameAnalysisWithTimestamp on the analysis a of one video
\* (idx is the 0-based frame index)
updateFrameAnalysisWithTimestamp(a, idx, landmarks, actualTimestamp, worldLandmarks) ==
  IF ~a.exists \/ idx >= Len(a.frames) THEN a
  ELSE IF a.frames[idx + 1].processed THEN a
  ELSE [a EXCEPT !.frames[idx + 1] =
                    [timestamp |-> actualTimestamp, landmarks |-> landmarks,
                     worldLandmarks |-> worldLandmarks, processed |-> TRUE],
                 !.processedFrames = @ + 1]

\* updateFrameAnalysis: the same, the slot keeping its nominal timestamp
updateFrameAnalysis(a, idx, landmarks, worldLandmarks) ==
  IF ~a.exists \/ idx >= Len(a.frames) THEN a
  ELSE IF a.frames[idx + 1].processed THEN a
  ELSE [a EXCEPT !.frames[idx + 1] =
                    [timestamp |-> a.frames[idx + 1].timestamp,
                     landmarks |-> landmarks,
                     worldLandmarks |-> worldLandmarks, processed |-> TRUE],
                 !.processedFrames = @ + 1]

completeAnalysis(a) ==
  IF ~a.exists THEN a ELSE [a EXCEPT !.isComplete = TRUE]

\* a faulty progress that counts the video under analysis alone
progressOfReferenceAlone(an) ==
  IF an["reference"].exists /\ an["reference"].totalFrames > 0
    THEN (100 * an["reference"].processedFrames) \div an["reference"].totalFrames
    ELSE 0

\* getAnalysisProgress on the analyses an of both videos: each contributes
\* processedFrames / totalFrames * 50, and the sum is rounded (Math.round:
\* halves upwards)
getAnalysisProgress(an) ==
  LET Processed(v) == IF an[v].exists /\ an[v].totalFrames > 0
                        THEN an[v].processedFrames ELSE 0
      Total(v) == IF an[v].exists /\ an[v].totalFrames > 0
                    THEN an[v].totalFrames ELSE 1
      num == 50 * (Processed("reference") * Total("user")
                   + Processed("user") * Total("reference"))
      den == Total("reference") * Total("user")
  IN  (2 * num + den) \div (2 * den)

\* the progress after a frame update that turned the analyses an into
\* updated: recomputed only if the update wrote a slot
ProgressAfterUpdate(an, updated) ==
  IF updated = an THEN analysisProgress ELSE getAnalysisProgress(updated)

(***************************************************************************)
(* angleAnalysisService.ts : analyzeAngles (shoulder channels)             *)
(***************************************************************************)
\* world landmarks in which a shoulder landmark is missing
NoShoulders == 0 - 1

\* calculateShoulderRotation: null if a shoulder is missing, else the
\* orientation in 0..359
calculateShoulderRotation(landmarks) ==
  IF landmarks = NoShoulders THEN NULL ELSE Some(landmarks)

\* the shoulderRotation samples pushed for the processed frames with world
\* landmarks, each with its index in analysis.frames
RECURSIVE ShoulderSamples(_, _)
ShoulderSamples(frames, i) ==
  IF i > Len(frames) THEN <<>>
  ELSE IF /\ frames[i].processed /\ frames[i].worldLandmarks # NULL
          /\ calculateShoulderRotation(Val(frames[i].worldLandmarks)) # NULL
         THEN <<[timestamp |-> frames[i].timestamp, frameIndex |-> i - 1,
                 angle |-> Val(frames[i].worldLandmarks)]>>
              \o ShoulderSamples(frames, i + 1)
         ELSE ShoulderSamples(frames, i + 1)

\* analysis.frames.filter(f => f.processed && f.worldLandmarks)
RECURSIVE FilteredFrames(_, _)
FilteredFrames(frames, i) ==
  IF i > Len(frames) THEN <<>>
  ELSE IF frames[i].processed /\ frames[i].worldLandmarks # NULL
         THEN <<frames[i]>> \o FilteredFrames(frames, i + 1)
         ELSE FilteredFrames(frames, i + 1)

\* a faulty interpolation that fills every gap with 0 degrees
interpolateAsZero(angleData, timestamp) == 0

\* interpolateAngleValue for a series of at least one sample (the linear
\* interpolation in whole degrees)
interpolateAngleValue(angleData, timestamp) ==
  IF Len(angleData) = 1 THEN angleData[1].angle
  ELSE
    LET afters == {i \in 1..Len(angleData) : angleData[i].timestamp >= timestamp}
        after == CHOOSE i \in afters : \A j \in afters : i <= j
        \* the loop stops at the first sample at or after the timestamp
        befores == {i \in 1..Len(angleData) :
                      /\ angleData[i].timestamp <= timestamp
                      /\ afters # {} => i <= after}
        before == CHOOSE i \in befores : \A j \in befores : j <= i
    IN  IF befores = {} THEN angleData[after].angle
        ELSE IF afters = {} THEN angleData[before].angle
        ELSE IF before # after
          THEN angleData[before].angle
               + ((angleData[after].angle - angleData[before].angle)
                    * (timestamp - angleData[before].timestamp))
                 \div (angleData[after].timestamp - angleData[before].timestamp)
        ELSE angleData[before].angle

\* the complete timeline over allFrames from frame k on: the first sample
\* with the frame's timestamp (10 ms tolerance, less than one unit of
\* time), or an interpolated sample
RECURSIVE CompleteData(_, _, _)
CompleteData(angleData, allFrames, k) ==
  IF k > Len(allFrames) THEN <<>>
  ELSE
    LET timestamp == allFrames[k].timestamp
        matches == {i \in 1..Len(angleData) : angleData[i].timestamp = timestamp}
        exactMatch == CHOOSE i \in matches : \A j \in matches : i <= j
    IN  (IF matches # {}
           THEN <<angleData[exactMatch]>>
           ELSE <<[timestamp |-> timestamp, frameIndex |-> k - 1,
                   angle |-> interpolateAngleValue(angleData, timestamp)]>>)
        \o CompleteData(angleData, allFrames, k + 1)

\* a faulty gap filling that leaves the series as it is
fillNoGaps(angleData, allFrames) == angleData

fillAngleDataGaps(angleData, allFrames) ==
  IF Len(angleData) = 0 THEN angleData
  ELSE LET completeData == CompleteData(angleData, allFrames, 1)
       IN  IF Len(completeData) > Len(angleData) THEN completeData ELSE angleData

\* world landmarks are kept as the shoulder orientation they yield
analyzeAngles(a) ==
  LET frames == FilteredFrames(a.frames, 1)
      shoulderRotation == fillAngleDataGaps(ShoulderSamples(a.frames, 1), frames)
  IN  [shoulderRotation |-> shoulderRotation,
       shoulderCumulativeRotation |-> calculateCumulativeRotation(shoulderRotation)]

(***************************************************************************)
(* jumpMetricsService : JumpMetricsService                                 *)
(***************************************************************************)
ROTATION_PADDING_FRAMES == 2

\* calculateJumpHeight is g * t^2 / 8 with g = 9.81: for t in 1/30 s the
\* height in metres is 981 * t^2 / 720000; the numerator is kept

AllNullMetrics ==
  [airTime |-> NULL, takeoffFrame |-> NULL, landingFrame |-> NULL,
   rotations |-> NULL, maxHeight |-> NULL]

\* a faulty formula that takes the whole air time as the time of rise
calculateHeightOfFullTime(airTime) ==
  IF airTime <= 0 THEN NULL ELSE Some(4 * 981 * airTime * airTime)

calculateJumpHeight(airTime) ==
  IF airTime <= 0 THEN NULL ELSE Some(981 * airTime * airTime)

\* the loop of findClosestFrameByTime from position i on (positions are
\* 1-based), closestIndex being the best position so far
RECURSIVE ClosestFrom(_, _, _, _)
ClosestFrom(frames, targetTime, i, closestIndex) ==
  IF i > Len(frames) THEN closestIndex
  ELSE IF Abs(frames[i].timestamp - targetTime)
            < Abs(frames[closestIndex].timestamp - targetTime)
         THEN ClosestFrom(frames, targetTime, i + 1, i)
         ELSE ClosestFrom(frames, targetTime, i + 1, closestIndex)

\* index (0-based) of the closest frame, null if there is no frame
findClosestFrameByTime(frames, targetTime) ==
  IF Len(frames) = 0 THEN NULL
  ELSE Some(ClosestFrom(frames, targetTime, 2, 1) - 1)

sampleVideoFps == 30

\* a faulty conversion that takes the marker frame number for a frame of
\* the analysis, at the analysis frame rate
MarkerTimeAtAnalysisRate(rawFrame) == rawFrame * TicksPerFrame

\* rawFrame / sampleVideoFps seconds, in 1/30 s
MarkerTime(rawFrame) == (rawFrame * 30) \div sampleVideoFps

\* rotation in degrees (the count is this over 360), null if unavailable
extractRotationFromAngleAnalysis(angleAnalysis, takeoffFrame, landingFrame) ==
  IF angleAnalysis = NULL THEN NULL
  ELSE
    LET cum == Val(angleAnalysis).shoulderCumulativeRotation
        rotationStartFrame == Max(0, takeoffFrame - ROTATION_PADDING_FRAMES)
        rotationEndFrame == landingFrame + ROTATION_PADDING_FRAMES
        starts == {i \in 1..Len(cum) : cum[i].frameIndex >= rotationStartFrame}
        ends == {i \in 1..Len(cum) : cum[i].frameIndex <= rotationEndFrame}
    IN  IF Len(cum) = 0 \/ starts = {} \/ ends = {} THEN NULL
        ELSE LET first == CHOOSE i \in starts : \A j \in starts : i <= j
                 last == CHOOSE i \in ends : \A j \in ends : i >= j
             IN  Some(Abs(cum[last].angle - cum[first].angle))

\* computeJumpMetrics: the error thrown, or the metrics bundle returned
computeJumpMetrics(a, markers, videoType, angleAnalysis) ==
  IF ~a.exists \/ ~a.isComplete
    THEN [error |-> "AnalysisIncomplete", metrics |-> NULL]
  ELSE IF ~markers.present
    THEN [error |-> "MarkersRequired", metrics |-> NULL]
  ELSE IF markers[videoType].takeoffFrame = NULL
          \/ markers[videoType].landingFrame = NULL
    THEN [error |-> "FramesNotSpecified", metrics |-> NULL]
  ELSE
    LET takeoffTime == MarkerTime(Val(markers[videoType].takeoffFrame))
        landingTime == MarkerTime(Val(markers[videoType].landingFrame))
        takeoffFrame == findClosestFrameByTime(a.frames, takeoffTime)
        landingFrame == findClosestFrameByTime(a.frames, landingTime)
    IN  IF takeoffFrame = NULL \/ landingFrame = NULL
          THEN [error |-> "NoAnalysisFrame", metrics |-> NULL]
        ELSE IF Val(takeoffFrame) >= Val(landingFrame)
          THEN [error |-> "InvalidFrameSequence", metrics |-> NULL]
        ELSE
          LET airTime == a.frames[Val(landingFrame) + 1].timestamp
                         - a.frames[Val(takeoffFrame) + 1].timestamp
          IN  [error |-> "none",
               metrics |-> Some(
                 [airTime |-> Some(airTime),
                  takeoffFrame |-> takeoffFrame,
                  landingFrame |-> landingFrame,
                  rotations |-> extractRotationFromAngleAnalysis(
                                  angleAnalysis, Val(takeoffFrame), Val(landingFrame)),
                  maxHeight |-> calculateJumpHeight(airTime)])]

(***************************************************************************)
(* manualJumpMetricsService : ManualJumpMetricsService                     *)
(***************************************************************************)
\* JavaScript truthiness of a nullable number: null and 0 are falsy
Truthy(o) == o # NULL /\ Val(o) # 0

\* rounding of |total| / 360 to the nearest quarter turn, back in degrees
\* (Math.round(x * 4) / 4 with x = total / 360, i.e. steps of 90 degrees)
RoundToQuarterTurn(total) == ((Abs(total) + 45) \div 90) * 90

RECURSIVE SelectFrames(_, _, _)
SelectFrames(frames, from, to) ==
  IF from > to THEN <<>>
  ELSE IF frames[from].processed /\ frames[from].worldLandmarks # NULL
         THEN <<[angle |-> Val(frames[from].worldLandmarks)]>>
              \o SelectFrames(frames, from + 1, to)
         ELSE SelectFrames(frames, from + 1, to)

\* calculateRotations: the wrapped deltas over the marked frames
manualCalculateRotations(a, takeoffFrame, landingFrame) ==
  LET airTimeFrames == SelectFrames(a.frames, Max(0, takeoffFrame) + 1,
                                    Min(Len(a.frames), landingFrame + 1))
  IN  IF Len(airTimeFrames) < 5 THEN NULL
      ELSE Some(RoundToQuarterTurn(NetRotation(airTimeFrames)))

manualComputeJumpMetrics(markers, videoType, a) ==
  LET videoMarkers == markers[videoType]
  IN  IF ~Truthy(videoMarkers.takeoffTime) \/ ~Truthy(videoMarkers.landingTime)
         \/ ~Truthy(videoMarkers.takeoffFrame) \/ ~Truthy(videoMarkers.landingFrame)
        THEN AllNullMetrics
      ELSE
        LET airTime == Val(videoMarkers.landingTime) - Val(videoMarkers.takeoffTime)
        IN  [airTime |-> Some(airTime),
             takeoffFrame |-> videoMarkers.takeoffFrame,
             landingFrame |-> videoMarkers.landingFrame,
             rotations |-> IF a.exists /\ a.isComplete
                             THEN manualCalculateRotations(
                                    a, Val(videoMarkers.takeoffFrame),
                                    Val(videoMarkers.landingFrame))
                             ELSE NULL,
             maxHeight |-> calculateJumpHeight(airTime)]

(***************************************************************************)
(* Inputs of an analysis run                                               *)
(***************************************************************************)
\* shoulder orientations the pose model can report for a frame
PoseAngles == {90}

DetectResults == {NULL} \cup {Some(p) : p \in PoseAngles}

\* markers of one video: frame numbers at 30 fps with their timestamps
Mk(t, l) ==
  [takeoffFrame |-> Some(t), takeoffTime |-> Some(t),
   landingFrame |-> Some(l), landingTime |-> Some(l)]

NoMk ==
  [takeoffFrame |-> NULL, takeoffTime |-> NULL,
   landingFrame |-> NULL, landingTime |-> NULL]

NoMarkers == [present |-> FALSE, reference |-> NoMk, user |-> NoMk]

\* durations of the loaded videos: one a whole number of analysis frames,
\* one not
Durations == (MaxDuration - 1)..MaxDuration

\* the marker set the wizard stores: landing marked before takeoff on the
\* reference video, takeoff before landing on the user video
MarkerInputs ==
  {[present |-> TRUE, reference |-> Mk(3, 1), user |-> Mk(1, 3)]}

(***************************************************************************)
(* PoseDetectorService.detectPose                                          *)
(***************************************************************************)
\* detectPose has no await of its own: the promise it returns is already
\* resolved, so the caller's `await` resumes in a microtask, before any
\* other event, timer or display-refresh callback runs
AwaitResumesLater == FALSE

AwaitResumesAsMicrotask == TRUE

\* a faulty catch that hands out a detection for the failed frame
InferenceErrorAsDetection == Some(90)

\* what detectPose returns when detectForVideo throws
InferenceErrorResult == NULL

\* what detectPose can return for video v now
DetectOutcomes(v) ==
  IF ~poseInitialized \/ currentTime[v] = lastVideoTime THEN {NULL}
  ELSE DetectResults

(***************************************************************************)
(* videoAnalysisService : analyzeWithSlowPlayback                          *)
(***************************************************************************)
\* totalFrames of the closure: floor(duration * fps)
LoopTotalFrames == duration \div TicksPerFrame

DetectPending == \E v \in Videos : awaiting[v] # <<>>

ContinuationPending ==
  \/ \E v \in Videos : runPc = v /\ settled[v] = "resolved"
  \/ runPc \in {"returned", "threw"}

\* a microtask is queued: no event handler, timer or callback runs first
Blocked ==
  \/ ContinuationPending
  \/ AwaitResumesAsMicrotask /\ DetectPending

\* analyzeWithSlowPlayback(v) up to the returned promise: reset the video,
\* attach the listeners, play()
BeginPlayback(v) ==
  /\ currentTime' = [currentTime EXCEPT ![v] = 0]
  /\ paused' = [paused EXCEPT ![v] = FALSE]
  /\ ended' = [ended EXCEPT ![v] = FALSE]
  /\ evPlaying' = [evPlaying EXCEPT ![v] = TRUE]
  /\ evEnded' = [evEnded EXCEPT ![v] = FALSE]
  /\ listening' = [listening EXCEPT ![v] = TRUE]
  /\ frameIndex' = [frameIndex EXCEPT ![v] = 0]
  /\ raf' = [raf EXCEPT ![v] = 0]
  /\ awaiting' = [awaiting EXCEPT ![v] = <<>>]
  /\ settled' = [settled EXCEPT ![v] = "pending"]

\* cleanup(); store.completeAnalysis(type) unless cancelled; resolve()
\* (a is the video's analysis as the handler leaves it; an event still
\* queued finds its listener removed)
Finish(v, markComplete, a) ==
  /\ listening' = [listening EXCEPT ![v] = FALSE]
  /\ evPlaying' = [evPlaying EXCEPT ![v] = FALSE]
  /\ evEnded' = [evEnded EXCEPT ![v] = FALSE]
  /\ paused' = [paused EXCEPT ![v] = TRUE]
  /\ analysis' = [analysis EXCEPT ![v] = IF markComplete THEN completeAnalysis(a) ELSE a]
  /\ settled' = [settled EXCEPT ![v] = "resolved"]

\* the handler leaves the listeners, the playback and the promise alone
Continue(v, a) ==
  /\ analysis' = [analysis EXCEPT ![v] = a]
  /\ UNCHANGED <<listening, evPlaying, evEnded, paused, settled>>

\* the end of processFrame: schedule the next callback, or complete
\* (fi: frameIndex now, pending: callbacks still scheduled)
Reschedule(v, a, fi, pending) ==
  IF ~ended[v] /\ ~paused[v] /\ fi < LoopTotalFrames
    THEN /\ raf' = [raf EXCEPT ![v] = pending + 1]
         /\ Continue(v, a)
    ELSE /\ raf' = [raf EXCEPT ![v] = pending]
         /\ IF fi >= LoopTotalFrames
              THEN Finish(v, TRUE, a)
              ELSE Continue(v, a)

\* processFrame finds the cancellation flag set
ProcessFrameAborted(v) ==
  /\ ~Blocked
  /\ raf[v] > 0
  /\ abortController = "aborted"
  /\ raf' = [raf EXCEPT ![v] = @ - 1]
  /\ Finish(v, FALSE, analysis[v])
  /\ UNCHANGED <<harnessVars, analysisProgress, serviceVars, storeIsAnalyzing, analysisError,
                 metrics, angles, manualMarkers, duration, currentTime, ended,
                 frameIndex, awaiting, historyVars>>

\* processFrame before the next frame is due
ProcessFrameIdle(v) ==
  /\ ~Blocked
  /\ raf[v] > 0
  /\ abortController # "aborted"
  /\ currentTime[v] < frameIndex[v] * TicksPerFrame
  /\ Reschedule(v, analysis[v], frameIndex[v], raf[v] - 1)
  /\ UNCHANGED <<harnessVars, analysisProgress, serviceVars, storeIsAnalyzing, analysisError,
                 metrics, angles, manualMarkers, duration, currentTime, ended,
                 frameIndex, awaiting, historyVars>>

\* processFrame with a frame due: calls detectPose and awaits its promise
\* (r: what detectPose returns; threw: detectForVideo threw inside it)
DetectPose(v, r, threw) ==
  /\ ~Blocked
  /\ raf[v] > 0
  /\ abortController # "aborted"
  /\ currentTime[v] >= frameIndex[v] * TicksPerFrame
  /\ awaiting' = [awaiting EXCEPT ![v] = Append(@, r)]
  /\ sampled' = [sampled EXCEPT ![v] = Append(@, r)]
  /\ threwAt' = IF threw
                  THEN [threwAt EXCEPT ![v] = @ \cup {Len(sampled[v]) + 1}]
                  ELSE threwAt
  /\ lastVideoTime' = IF poseInitialized THEN currentTime[v] ELSE lastVideoTime
  /\ raf' = [raf EXCEPT ![v] = @ - 1]
  /\ LET inferring == poseInitialized /\ currentTime[v] # lastVideoTime
     IN  /\ inferredAfterCancel' = (inferredAfterCancel \/ (inferring /\ cancelled # NULL))
         /\ lateReference' =
              (lateReference \/ (inferring /\ v = "reference" /\ analysis["user"].exists))
  /\ UNCHANGED <<harnessVars, isAnalyzing, abortController, runPc, poseInitialized,
                 storeVars, videoVars, listening, frameIndex, settled,
                 reads, raised, cancelled>>

\* detectPose returns the model's result, or null without calling the model
ProcessFrameDetect(v) ==
  \E r \in DetectOutcomes(v) : DetectPose(v, r, FALSE)

\* the model throws: detectPose catches the error and returns null
ProcessFrameDetectThrows(v) ==
  /\ poseInitialized
  /\ currentTime[v] # lastVideoTime
  /\ DetectPose(v, InferenceErrorResult, TRUE)

\* processFrame after the await: store the frame, advance, reschedule
ProcessFrameResume(v) ==
  /\ awaiting[v] # <<>>
  /\ LET r == Head(awaiting[v])
         a == updateFrameAnalysisWithTimestamp(
                analysis[v], frameIndex[v],
                IF r = NULL THEN NULL ELSE Some("landmarks"),
                currentTime[v], r)
     IN  /\ awaiting' = [awaiting EXCEPT ![v] = Tail(@)]
         /\ frameIndex' = [frameIndex EXCEPT ![v] = @ + 1]
         /\ Reschedule(v, a, frameIndex[v] + 1, raf[v])
         /\ analysisProgress' =
              ProgressAfterUpdate(analysis, [analysis EXCEPT ![v] = a])
         /\ lateReference' =
              (lateReference \/ (v = "reference" /\ analysis["user"].exists
                                  /\ a # analysis[v]))
  /\ UNCHANGED <<harnessVars, serviceVars, storeIsAnalyzing, analysisError,
                 metrics, angles, manualMarkers, duration, currentTime, ended,
                 reads, raised, cancelled, inferredAfterCancel, sampled, threwAt>>

\* the 'playing' listener
OnPlaying(v) ==
  /\ ~Blocked
  /\ evPlaying[v]
  /\ evPlaying' = [evPlaying EXCEPT ![v] = FALSE]
  /\ raf' = [raf EXCEPT ![v] = @ + 1]
  /\ UNCHANGED <<harnessVars, serviceVars, storeVars, duration, currentTime,
                 paused, ended, evEnded, listening, frameIndex, awaiting,
                 settled, historyVars>>

\* the 'ended' listener
OnEnded(v) ==
  /\ ~Blocked
  /\ evEnded[v]
  /\ Finish(v, TRUE, analysis[v])
  /\ UNCHANGED <<harnessVars, analysisProgress, serviceVars, storeIsAnalyzing, analysisError,
                 metrics, angles, manualMarkers, duration, currentTime, ended,
                 frameIndex, raf, awaiting, historyVars>>

(***************************************************************************)
(* The video elements                                                      *)
(***************************************************************************)
\* playback advances by 1/30 s; reaching the end sets `ended` and queues
\* the 'ended' event
Tick(v) ==
  /\ ~paused[v] /\ ~ended[v]
  /\ currentTime[v] < duration
  /\ currentTime' = [currentTime EXCEPT ![v] = @ + 1]
  /\ ended' = [ended EXCEPT ![v] = (currentTime[v] + 1 = duration)]
  /\ evEnded' = [evEnded EXCEPT ![v] = (currentTime[v] + 1 = duration)]
  /\ UNCHANGED <<harnessVars, serviceVars, storeVars, duration, paused,
                 evPlaying, loopVars, historyVars>>

\* playback at a quarter of the speed, slower than the display refreshes:
\* the video advances once the frame that is due has been captured
TickOnTime(v) ==
  /\ currentTime[v] < frameIndex[v] * TicksPerFrame
  /\ Tick(v)

\* playback of a video under analysis restarts (the viewer clicks the
\* player twice, or the video stalls for data): another 'playing' event
PlaybackRestarted(v) ==
  /\ ~Blocked
  /\ listening[v] /\ ~paused[v] /\ ~ended[v]
  /\ ~evPlaying[v]
  /\ raf[v] < MaxChains
  /\ evPlaying' = [evPlaying EXCEPT ![v] = TRUE]
  /\ UNCHANGED <<harnessVars, serviceVars, storeVars, duration, currentTime,
                 paused, ended, evEnded, loopVars, historyVars>>

\* VideoPlayer's onClick on a video under analysis: pause() while it plays;
\* play() while it is paused, which queues another 'playing' event
TogglePlayback(v) ==
  /\ ~Blocked
  /\ listening[v] /\ ~ended[v]
  /\ IF paused[v]
       THEN /\ ~evPlaying[v]
            /\ raf[v] < MaxChains
            /\ paused' = [paused EXCEPT ![v] = FALSE]
            /\ evPlaying' = [evPlaying EXCEPT ![v] = TRUE]
       ELSE /\ paused' = [paused EXCEPT ![v] = TRUE]
            /\ UNCHANGED evPlaying
  /\ UNCHANGED <<harnessVars, serviceVars, storeVars, duration, currentTime,
                 ended, evEnded, loopVars, historyVars>>

(***************************************************************************)
(* videoAnalysisService : analyzeBothVideos, abortAnalysis                 *)
(***************************************************************************)
\* the finally block: isAnalyzing = false, abortController = null,
\* store.stopAnalysis()
Finally ==
  /\ isAnalyzing' = FALSE
  /\ abortController' = "null"
  /\ storeIsAnalyzing' = FALSE
  /\ analysisError' = NULL

\* store.hasValidMarkers()
hasValidMarkers ==
  /\ manualMarkers.present
  /\ \A v \in Videos :
       manualMarkers[v].takeoffTime # NULL /\ manualMarkers[v].landingTime # NULL

\* store.setManualMarkers(markers), before a run
setManualMarkers(markers) ==
  /\ runPc = "idle"
  /\ ~manualMarkers.present
  /\ manualMarkers' = markers
  /\ UNCHANGED <<harnessVars, analysisProgress, serviceVars, analysis, storeIsAnalyzing,
                 analysisError, metrics, angles, videoVars, loopVars,
                 historyVars>>

\* App.handleStartAnalysis and analyzeBothVideos up to the first await
\* inside analyzeVideo(reference)
HandleStartAnalysis ==
  /\ runPc = "idle"
  /\ hasValidMarkers
  /\ ~isAnalyzing
  /\ isAnalyzing' = TRUE
  /\ abortController' = "live"
  /\ storeIsAnalyzing' = TRUE
  /\ analysisProgress' = 0
  /\ analysisError' = NULL
  /\ analysis' = [analysis EXCEPT !["reference"] = initializeVideoAnalysis(duration)]
  /\ IF poseInitialized
       THEN /\ BeginPlayback("reference")
            /\ runPc' = "reference"
       ELSE /\ runPc' = "init"
            /\ UNCHANGED <<currentTime, paused, ended, evPlaying, evEnded, loopVars>>
  /\ UNCHANGED <<harnessVars, poseInitialized, lastVideoTime, metrics, angles,
                 manualMarkers, duration, historyVars>>

\* poseDetector.initialize() succeeds: analyzeWithSlowPlayback(reference)
InitializeSucceeded ==
  /\ runPc = "init"
  /\ poseInitialized' = TRUE
  /\ BeginPlayback("reference")
  /\ runPc' = "reference"
  /\ UNCHANGED <<harnessVars, isAnalyzing, abortController, lastVideoTime,
                 storeVars, duration, historyVars>>

\* poseDetector.initialize() throws: catch (setAnalysisError), rethrow,
\* finally
InitializeFailed ==
  /\ runPc = "init"
  /\ Finally
  /\ runPc' = "threw"
  /\ UNCHANGED <<harnessVars, analysisProgress, poseInitialized, lastVideoTime, analysis, metrics,
                 angles, manualMarkers, videoVars, loopVars, historyVars>>

\* after `await analyzeVideo(reference)`: return if cancelled, else start
\* the 100 ms delay
ContinueAfterReference ==
  /\ runPc = "reference"
  /\ settled["reference"] = "resolved"
  /\ IF abortController = "aborted"
       THEN /\ Finally
            /\ runPc' = "returned"
       ELSE /\ runPc' = "delay"
            /\ UNCHANGED <<isAnalyzing, abortController, storeIsAnalyzing, analysisError>>
  /\ UNCHANGED <<harnessVars, analysisProgress, poseInitialized, lastVideoTime, analysis, metrics,
                 angles, manualMarkers, videoVars, loopVars, historyVars>>

\* the delay elapses: analyzeVideo(user) up to the promise of
\* analyzeWithSlowPlayback(user)
DelayElapsed ==
  /\ ~Blocked
  /\ runPc = "delay"
  /\ runPc' = "user"
  /\ analysis' = [analysis EXCEPT !["user"] = initializeVideoAnalysis(duration)]
  /\ BeginPlayback("user")
  /\ UNCHANGED <<harnessVars, analysisProgress, isAnalyzing, abortController, poseInitialized,
                 lastVideoTime, storeIsAnalyzing, analysisError, metrics, angles,
                 manualMarkers, duration, historyVars>>

\* a faulty caller without the try/catch: the bundle returned, nothing on
\* an error
StoredMetricsUncaught(r) == r.metrics

\* try { setMetrics(computeJumpMetrics(...)) } catch { setMetrics(all null) }
StoredMetrics(r) ==
  IF r.error # "none" THEN Some(AllNullMetrics) ELSE r.metrics

\* the videos whose angles and metrics the run computes
Computed == {v \in Videos : analysis[v].exists /\ manualMarkers.present}

RunMetrics(v) ==
  computeJumpMetrics(analysis[v], manualMarkers, v, Some(analyzeAngles(analysis[v])))

\* after `await analyzeVideo(user)`: angles and metrics of both videos,
\* then finally; an error nobody catches rejects the run
ContinueAfterUser ==
  /\ runPc = "user"
  /\ settled["user"] = "resolved"
  /\ angles' = [v \in Videos |->
                  IF v \in Computed THEN Some(analyzeAngles(analysis[v])) ELSE angles[v]]
  /\ metrics' = [v \in Videos |->
                   IF v \in Computed /\ StoredMetrics(RunMetrics(v)) # NULL
                     THEN StoredMetrics(RunMetrics(v)) ELSE metrics[v]]
  /\ reads' = reads \cup
       {[reader |-> rd, video |-> v, complete |-> analysis[v].isComplete] :
          rd \in {"angles", "metrics"}, v \in Computed}
  /\ raised' = [v \in Videos |->
                  IF v \in Computed THEN RunMetrics(v).error ELSE raised[v]]
  /\ Finally
  /\ runPc' = IF \E v \in Computed : StoredMetrics(RunMetrics(v)) = NULL
                THEN "threw" ELSE "returned"
  /\ analysisProgress' = IF \E v \in Computed : StoredMetrics(RunMetrics(v)) = NULL
                           THEN analysisProgress ELSE 100
  /\ UNCHANGED <<harnessVars, poseInitialized, lastVideoTime, analysis,
                 manualMarkers, videoVars, loopVars, cancelled,
                 inferredAfterCancel, lateReference, sampled, threwAt>>

\* the video being analysed, or about to be
CurrentVideo == IF runPc \in {"init", "reference"} THEN "reference" ELSE "user"

\* abortAnalysis() during a run
AbortAnalysis ==
  /\ ~Blocked
  /\ abortController = "live"
  /\ abortController' = "aborted"
  /\ storeIsAnalyzing' = FALSE
  /\ analysisError' = NULL
  /\ cancelled' = Some(CurrentVideo)
  /\ UNCHANGED <<harnessVars, analysisProgress, isAnalyzing, runPc, poseInitialized, lastVideoTime,
                 analysis, metrics, angles, manualMarkers, videoVars, loopVars,
                 reads, raised, inferredAfterCancel, lateReference, sampled,
                 threwAt>>

\* store.hasValidAnalysis(), both videos being loaded
hasValidAnalysis == \A v \in Videos : analysis[v].exists /\ analysis[v].isComplete

\* a faulty guard placed inside the try block: its error goes through the
\* catch and the finally block
ThrownInsideTry == Finally

\* the guard of analyzeBothVideos throws before the try block: nothing is
\* assigned
ThrownBeforeTry ==
  UNCHANGED <<isAnalyzing, abortController, storeIsAnalyzing, analysisError>>

\* App.handleStartAnalysis while the service is running (the button offers
\* ANALYZE again once a cancellation has cleared the store's flag):
\* analyzeBothVideos throws 'Analysis already in progress', which
\* handleStartAnalysis catches
HandleStartAnalysisRejected ==
  /\ hasValidMarkers
  /\ ~storeIsAnalyzing
  /\ ~hasValidAnalysis
  /\ isAnalyzing
  /\ ThrownBeforeTry
  /\ rejected' = TRUE
  /\ UNCHANGED <<trackerVars, wizardVars, engineVars, fusionVars, heightVars,
                 frameUpdates, reruns, analysisProgress, runPc, poseInitialized,
                 lastVideoTime, analysis, metrics, angles, manualMarkers,
                 videoVars, loopVars, historyVars>>

\* App.handleStartAnalysis once more, after a run that did not leave two
\* complete analyses (the button offers ANALYZE again): analyzeBothVideos
\* up to the first await inside analyzeVideo(reference), on the store and
\* the pose detector as the earlier run left them
HandleStartAnalysisAgain ==
  /\ reruns < MaxReruns
  /\ reruns' = reruns + 1
  /\ runPc = "finished"
  /\ hasValidMarkers
  /\ ~storeIsAnalyzing
  /\ ~hasValidAnalysis
  /\ ~isAnalyzing
  /\ poseInitialized
  /\ isAnalyzing' = TRUE
  /\ abortController' = "live"
  /\ storeIsAnalyzing' = TRUE
  /\ analysisProgress' = 0
  /\ analysisError' = NULL
  /\ analysis' = [analysis EXCEPT !["reference"] = initializeVideoAnalysis(duration)]
  /\ BeginPlayback("reference")
  /\ runPc' = "reference"
  /\ reads' = {}
  /\ raised' = [v \in Videos |-> "none"]
  /\ cancelled' = NULL
  /\ inferredAfterCancel' = FALSE
  /\ lateReference' = FALSE
  /\ sampled' = [v \in Videos |-> <<>>]
  /\ threwAt' = [v \in Videos |-> {}]
  /\ UNCHANGED <<trackerVars, wizardVars, engineVars, fusionVars, heightVars,
                 rejected, frameUpdates, poseInitialized, lastVideoTime, metrics,
                 angles, manualMarkers, duration>>

(***************************************************************************)
(* App.handleStartAnalysis after `await analyzeBothVideos(...)`            *)
(***************************************************************************)
HandleStartAnalysisContinue ==
  /\ runPc \in {"returned", "threw"}
  /\ runPc' = "finished"
  /\ metrics' =
       IF /\ runPc = "returned"
          /\ manualMarkers.present
          /\ \A v \in Videos : analysis[v].exists
         THEN [v \in Videos |->
                 Some(manualComputeJumpMetrics(manualMarkers, v, analysis[v]))]
         ELSE metrics
  /\ UNCHANGED <<harnessVars, analysisProgress, isAnalyzing, abortController, poseInitialized,
                 lastVideoTime, analysis, storeIsAnalyzing, analysisError, angles,
                 manualMarkers, videoVars, loopVars, historyVars>>

(***************************************************************************)
(* The angle and metrics engines called on a stored analysis               *)
(***************************************************************************)
\* the video whose stored analysis the engines are called on
EngineVideo == "reference"

\* orientation of the shoulders in analysis frame i of a steady rotation
EngineAngle(i) == ((i - 1) * 40) % 360

\* how late each frame was sampled: on time, one unit late, or the first
\* frame three units late
Lateness == {"none", "each", "first"}

Late(pattern, i) ==
  IF pattern = "each" THEN 1
  ELSE IF pattern = "first" /\ i = 1 THEN 3 ELSE 0

\* a completed analysis of MaxFrames frames: the frames in `detected` have
\* world landmarks, the others are null detections; the frames in
\* `shoulderless` have world landmarks without a shoulder
StoredAnalysis(detected, shoulderless, pattern) ==
  [exists |-> TRUE,
   frames |-> [i \in 1..MaxFrames |->
                 [timestamp |-> (i - 1) * TicksPerFrame + Late(pattern, i),
                  landmarks |-> IF i \in detected THEN Some(90) ELSE NULL,
                  worldLandmarks |->
                    IF i \notin detected THEN NULL
                    ELSE IF i \in shoulderless THEN Some(NoShoulders)
                    ELSE Some(EngineAngle(i)),
                  processed |-> TRUE]],
   totalFrames |-> MaxFrames,
   processedFrames |-> MaxFrames,
   isComplete |-> TRUE]

\* at most one detected frame lacks a shoulder
StoredAnalyses ==
  {StoredAnalysis(d, g, p) :
     d \in SUBSET (1..MaxFrames),
     g \in {{}} \cup {{i} : i \in 1..MaxFrames},
     p \in Lateness}

\* marker frames of the 30 fps video
MarkerFrames == 0..(MaxFrames * TicksPerFrame - 1)

StoredMarkers ==
  {[present |-> TRUE, reference |-> Mk(t, l), user |-> NoMk] :
     t \in MarkerFrames, l \in MarkerFrames}

\* angleAnalysisService.analyzeAngles(analysis), stored by setAngles
EngineAnalyzeAngles ==
  /\ analysis[EngineVideo].exists
  /\ Len(angleOutputs) < 2
  /\ LET out == analyzeAngles(analysis[EngineVideo])
     IN  /\ angleOutputs' = Append(angleOutputs, out)
         /\ angles' = [angles EXCEPT ![EngineVideo] = Some(out)]
  /\ UNCHANGED <<trackerVars, wizardVars, pureVars, metricsOutputs, serviceVars,
                 analysis,
                 storeIsAnalyzing, analysisError, metrics, manualMarkers,
                 analysisProgress, videoVars, loopVars, historyVars>>

\* a faulty extraction that reverses the cumulative series in place
AfterReverseInPlace(cum) == [i \in 1..Len(cum) |-> cum[Len(cum) + 1 - i]]

\* the cumulative series of the caller after extractRotationFromAngleAnalysis:
\* .slice().reverse() reverses a copy
AfterSliceReverse(cum) == cum

\* jumpMetricsService.computeJumpMetrics(analysis, markers, type, angles)
\* with the stored angle analysis, stored as analyzeBothVideos stores it
EngineComputeMetrics ==
  /\ analysis[EngineVideo].exists
  /\ angles[EngineVideo] # NULL
  /\ Len(metricsOutputs) < 2
  /\ LET out == computeJumpMetrics(analysis[EngineVideo], manualMarkers,
                                   EngineVideo, angles[EngineVideo])
     IN  /\ metricsOutputs' = Append(metricsOutputs, out)
         /\ metrics' = [metrics EXCEPT ![EngineVideo] = StoredMetrics(out)]
         /\ raised' = [raised EXCEPT ![EngineVideo] = out.error]
         /\ angles' =
              [angles EXCEPT ![EngineVideo] =
                 IF out.error = "none"
                   THEN Some([Val(@) EXCEPT !.shoulderCumulativeRotation =
                                              AfterSliceReverse(@)])
                   ELSE @]
  /\ UNCHANGED <<trackerVars, wizardVars, pureVars, angleOutputs, serviceVars,
                 analysis,
                 storeIsAnalyzing, analysisError, manualMarkers,
                 analysisProgress, videoVars,
                 loopVars, reads, cancelled, inferredAfterCancel, lateReference,
                 sampled, threwAt>>

EngineIdle ==
  /\ angleOutputs = <<>>
  /\ metricsOutputs = <<>>

(***************************************************************************)
(* jumpMetricsService (automatic detection) : fuseDetections               *)
(***************************************************************************)
\* Array.prototype.indexOf: the 0-based position of x, or -1
IndexOf(seq, x) ==
  IF \E i \in 1..Len(seq) : seq[i] = x
    THEN (CHOOSE i \in 1..Len(seq) : seq[i] = x /\ \A j \in 1..(i - 1) : seq[j] # x) - 1
    ELSE 0 - 1

RECURSIVE WeightedSum(_, _)
WeightedSum(votes, i) ==
  IF i = 0 THEN 0 ELSE WeightedSum(votes, i - 1) + votes[i].frame * votes[i].weight

RECURSIVE TotalWeight(_, _)
TotalWeight(votes, i) ==
  IF i = 0 THEN 0 ELSE TotalWeight(votes, i - 1) + votes[i].weight

\* Math.round(weightedSum / totalWeight), weights in tenths
weightedAverage(votes) ==
  (2 * WeightedSum(votes, Len(votes)) + TotalWeight(votes, Len(votes)))
    \div (2 * TotalWeight(votes, Len(votes)))

\* validateJumpDetection(...).isValid, for timestamps that span a positive
\* time; the flight time is flightFrames * span / n units of 1/30 s, so
\* 0.1 s is 3 units and 1.5 s is 45 units
validateJumpDetection(takeoffFrame, landingFrame, sig) ==
  LET flightFrames == landingFrame - takeoffFrame
      n == Len(sig.timestamps)
      span == IF n > 1 THEN sig.timestamps[n] - sig.timestamps[1] ELSE 0
      tooShort == IF n > 1 THEN flightFrames * span < 3 * n ELSE flightFrames < 6
      tooLong == IF n > 1 THEN flightFrames * span > 45 * n ELSE flightFrames > 90
      takeoffIdx == IndexOf(sig.frameIndices, takeoffFrame)
      landingIdx == IndexOf(sig.frameIndices, landingFrame)
      apexIdx == (takeoffIdx + landingIdx) \div 2
      preJumpHeight == IF takeoffIdx > 5 THEN sig.hipHeights[takeoffIdx - 5 + 1]
                       ELSE sig.hipHeights[1]
  IN  /\ ~tooShort
      /\ ~tooLong
      \* hipHeights[-1] is undefined, and undefined <= x is false
      /\ (apexIdx < Len(sig.hipHeights) /\ apexIdx >= 0) =>
            ~(sig.hipHeights[apexIdx + 1] <= preJumpHeight)

NoDetection == [takeoffFrame |-> NULL, landingFrame |-> NULL]

RECURSIVE ValidCandidates(_, _)
ValidCandidates(cands, i) ==
  IF i > Len(cands) THEN <<>>
  ELSE (IF cands[i].takeoffFrame # NULL /\ cands[i].landingFrame # NULL
          THEN <<cands[i]>> ELSE <<>>)
       \o ValidCandidates(cands, i + 1)

\* fuseDetections; the candidates in the order velocity, acceleration, height,
\* groundContact
fuseDetections(cands, sig) ==
  LET validCandidates == ValidCandidates(cands, 1)
      takeoffVotes == [i \in 1..Len(validCandidates) |->
                         [frame |-> Val(validCandidates[i].takeoffFrame),
                          weight |-> validCandidates[i].confidence]]
      landingVotes == [i \in 1..Len(validCandidates) |->
                         [frame |-> Val(validCandidates[i].landingFrame),
                          weight |-> validCandidates[i].confidence]]
  IN  IF Len(validCandidates) = 0 THEN NoDetection
      ELSE LET takeoffFrame == weightedAverage(takeoffVotes)
               landingFrame == weightedAverage(landingVotes)
           IN  IF validateJumpDetection(takeoffFrame, landingFrame, sig)
                 THEN [takeoffFrame |-> Some(takeoffFrame),
                       landingFrame |-> Some(landingFrame)]
                 ELSE NoDetection

\* a detection result; the confidence (in tenths) is the high one when both
\* frames are truthy
Detection(t, l, high, low) ==
  [takeoffFrame |-> t, landingFrame |-> l,
   confidence |-> IF Truthy(t) /\ Truthy(l) THEN high ELSE low]

(***************************************************************************)
(* Inputs of the automatic detection harness                               *)
(***************************************************************************)
\* frames that may lack landmarks, and so are left out of the signals
DroppedFrames == {6, 14}

\* hip height (cm) over the frames
HipProfiles == {"flat", "jump", "crouch"}

HipHeight(profile, f) ==
  IF f < 6 \/ f > 14 THEN 0
  ELSE IF profile = "jump" THEN 10
  ELSE IF profile = "crouch" THEN 0 - 10 ELSE 0

RECURSIVE KeptFrames(_, _)
KeptFrames(dropped, f) ==
  IF f >= MaxSignalFrames THEN <<>>
  ELSE (IF f \in dropped THEN <<>> ELSE <<f>>) \o KeptFrames(dropped, f + 1)

\* extractSignals on a video sampled at 15 fps
Signals(dropped, profile) ==
  LET kept == KeptFrames(dropped, 0)
  IN  [frameIndices |-> kept,
       timestamps |-> [i \in 1..Len(kept) |-> kept[i] * TicksPerFrame],
       hipHeights |-> [i \in 1..Len(kept) |-> HipHeight(profile, kept[i])]]

SignalInputs ==
  {Signals(d, p) : d \in SUBSET DroppedFrames, p \in HipProfiles}

TakeoffChoices == {0, 5, 7}

LandingChoices == {8, 11, 17, 25}

\* a method found nothing, or a takeoff only
Undetected(high, low) ==
  {Detection(NULL, NULL, high, low)}
    \cup {Detection(Some(t), NULL, high, low) : t \in TakeoffChoices}

\* velocityBasedDetection: the takeoff at positions 5..n-4 of the signals,
\* the landing at least 9 positions later and at most at position n-2
VelocityFeasible(sig, c) ==
  LET n == Len(sig.frameIndices)
      ti == IndexOf(sig.frameIndices, Val(c.takeoffFrame))
  IN  /\ c.takeoffFrame # NULL => ti >= 5 /\ ti <= n - 4
      /\ c.landingFrame # NULL =>
           LET li == IndexOf(sig.frameIndices, Val(c.landingFrame))
           IN  li >= ti + 9 /\ li <= n - 2

\* accelerationBasedDetection: the landing at least 8 positions after the
\* takeoff
AccelerationFeasible(sig, c) ==
  LET ti == IndexOf(sig.frameIndices, Val(c.takeoffFrame))
  IN  /\ c.takeoffFrame # NULL => ti >= 0
      /\ c.landingFrame # NULL =>
           IndexOf(sig.frameIndices, Val(c.landingFrame)) >= ti + 8

\* heightBasedDetection: the takeoff from position 1 on, the landing later
HeightFeasible(sig, c) ==
  LET ti == IndexOf(sig.frameIndices, Val(c.takeoffFrame))
  IN  /\ c.takeoffFrame # NULL => ti >= 1
      /\ c.landingFrame # NULL =>
           IndexOf(sig.frameIndices, Val(c.landingFrame)) > ti

MethodResults(high, low) ==
  Undetected(high, low) \cup
  {Detection(Some(t), Some(l), high, low) : t \in TakeoffChoices, l \in LandingChoices}

\* groundContactDetection is a placeholder
groundContactDetection == [takeoffFrame |-> NULL, landingFrame |-> NULL, confidence |-> 1]

CandidateInputs(sig) ==
  {<<v, a, h, groundContactDetection>> :
     v \in {c \in MethodResults(8, 3) : VelocityFeasible(sig, c)},
     a \in {c \in MethodResults(7, 2) : AccelerationFeasible(sig, c)},
     h \in {c \in MethodResults(9, 4) : HeightFeasible(sig, c)}}

NoSignals == [frameIndices |-> <<>>, timestamps |-> <<>>, hipHeights |-> <<>>]

\* detectAirTime hands the candidates and the signals to fuseDetections
FuseDetections ==
  /\ fused = NULL
  /\ candidates # <<>>
  /\ fused' = Some(fuseDetections(candidates, signals))
  /\ UNCHANGED <<signals, candidates, heightVars, auxVars, trackerVars, wizardVars,
                 engineVars, runVars>>

FusionIdle ==
  /\ signals = NoSignals
  /\ candidates = <<>>
  /\ fused = NULL

\* computeJumpMetrics hands an air time to calculateJumpHeight
CalculateJumpHeight ==
  /\ heightOutputs = <<>>
  /\ heightOutputs' = <<calculateJumpHeight(airTimeInput)>>
  /\ UNCHANGED <<airTimeInput, fusionVars, auxVars, trackerVars, wizardVars,
                 engineVars, runVars>>

HeightIdle ==
  /\ airTimeInput = 0
  /\ heightOutputs = <<>>

(***************************************************************************)
(* The store's frame updates called in any order                           *)
(***************************************************************************)
\* frame indices handed to the store: within and beyond the sequences
FrameIndexInputs == 0..MaxDuration

\* video times handed to the store with a frame: the start and the end
TimestampInputs == {0, duration}

NoUpdates == [written |-> <<>>, repeated |-> FALSE, beyond |-> FALSE]

\* initializeVideoAnalysis(v, duration, 15)
StoreInitialize(v) ==
  /\ analysis' = [analysis EXCEPT ![v] = initializeVideoAnalysis(duration)]
  /\ frameUpdates' =
       [frameUpdates EXCEPT ![v] =
          [written |-> [i \in 1..Len(initializeVideoAnalysis(duration).frames) |-> 0],
           repeated |-> FALSE, beyond |-> FALSE]]
  /\ UNCHANGED <<trackerVars, wizardVars, engineVars, fusionVars, heightVars,
                 rejected, reruns, serviceVars, storeIsAnalyzing, analysisError, metrics,
                 angles, manualMarkers, analysisProgress, videoVars, loopVars,
                 historyVars>>

\* a frame update of video v at index idx that left the analysis a: the
\* store's analysis, its progress, and the record of the update
StoreFrame(v, idx, a) ==
  /\ analysis' = [analysis EXCEPT ![v] = a]
  /\ analysisProgress' = ProgressAfterUpdate(analysis, [analysis EXCEPT ![v] = a])
  /\ frameUpdates' =
       [frameUpdates EXCEPT ![v] =
          [written |-> IF a # analysis[v]
                         THEN [@.written EXCEPT ![idx + 1] = @ + 1]
                         ELSE @.written,
           repeated |-> @.repeated
                          \/ (/\ analysis[v].exists
                              /\ idx < Len(analysis[v].frames)
                              /\ analysis[v].frames[idx + 1].processed),
           beyond |-> @.beyond
                        \/ (analysis[v].exists /\ idx >= Len(analysis[v].frames))]]
  /\ UNCHANGED <<trackerVars, wizardVars, engineVars, fusionVars, heightVars,
                 rejected, reruns, serviceVars, storeIsAnalyzing, analysisError, metrics,
                 angles, manualMarkers, videoVars, loopVars, historyVars>>

\* updateFrameAnalysis(v, idx, landmarks, worldLandmarks)
StoreUpdateFrame(v) ==
  \E idx \in FrameIndexInputs, r \in DetectResults :
    StoreFrame(v, idx,
      updateFrameAnalysis(analysis[v], idx,
        IF r = NULL THEN NULL ELSE Some("landmarks"), r))

\* updateFrameAnalysisWithTimestamp(v, idx, landmarks, actualTimestamp,
\* worldLandmarks)
StoreUpdateFrameWithTimestamp(v) ==
  \E idx \in FrameIndexInputs, r \in DetectResults, t \in TimestampInputs :
    StoreFrame(v, idx,
      updateFrameAnalysisWithTimestamp(analysis[v], idx,
        IF r = NULL THEN NULL ELSE Some("landmarks"), t, r))

AuxIdle ==
  /\ rejected = FALSE
  /\ frameUpdates = [v \in Videos |-> NoUpdates]
  /\ reruns = 0

PureIdle ==
  /\ FusionIdle
  /\ HeightIdle
  /\ AuxIdle

(***************************************************************************)
(* FrameMarkingWizard                                                      *)
(***************************************************************************)
\* WIZARD_STEPS: reference takeoff, reference landing, user takeoff, user
\* landing
StepVideo(i) == IF i < 2 THEN "reference" ELSE "user"

StepMarker(i) == IF i % 2 = 0 THEN "takeoff" ELSE "landing"

\* the markers the wizard starts from, and the store before any marking
EmptyMarkers == [reference |-> NoMk, user |-> NoMk]

\* maxFrames: floor(video.duration * 30)
maxFrames == duration

\* getOptimalStartingFrame: 0 for a takeoff step, the takeoff frame just
\* marked (|| 0) for a landing step
getOptimalStartingFrame ==
  IF StepMarker(currentStepIndex) = "takeoff" THEN 0
  ELSE IF Truthy(wizardMarkers[StepVideo(currentStepIndex)].takeoffFrame)
         THEN Val(wizardMarkers[StepVideo(currentStepIndex)].takeoffFrame)
         ELSE 0

\* the wizard opens on two loaded videos without stored markers
OpenWizard ==
  /\ ~isOpen
  /\ ~manualMarkers.present
  /\ isOpen' = TRUE
  /\ currentStepIndex' = 0
  /\ currentFrame' = 0
  /\ videoLoaded' = FALSE
  /\ wizardMarkers' = EmptyMarkers
  /\ UNCHANGED <<trackerVars, engineVars, pureVars, runVars>>

\* the 'loadedmetadata' listener: show the step's starting frame
HandleLoadedMetadata ==
  /\ isOpen
  /\ ~videoLoaded
  /\ currentFrame' = getOptimalStartingFrame
  /\ videoLoaded' = TRUE
  /\ UNCHANGED <<isOpen, currentStepIndex, wizardMarkers, trackerVars, engineVars, pureVars, runVars>>

\* seekToFrame: the frame number clamped to 0 .. maxFrames - 1
seekToFrame(frameNumber) == Max(0, Min(frameNumber, maxFrames - 1))

handlePreviousFrame ==
  /\ isOpen /\ videoLoaded
  /\ currentFrame > 0
  /\ currentFrame' = seekToFrame(currentFrame - 1)
  /\ UNCHANGED <<isOpen, currentStepIndex, videoLoaded, wizardMarkers, trackerVars, engineVars, pureVars, runVars>>

handleNextFrame ==
  /\ isOpen /\ videoLoaded
  /\ currentFrame < maxFrames - 1
  /\ currentFrame' = seekToFrame(currentFrame + 1)
  /\ UNCHANGED <<isOpen, currentStepIndex, videoLoaded, wizardMarkers, trackerVars, engineVars, pureVars, runVars>>

\* the markers after marking the frame shown (the video's currentTime is
\* that of the frame sought, currentFrame / 30 s)
MarkedAt(m, step, frame) ==
  IF StepMarker(step) = "takeoff"
    THEN [m EXCEPT ![StepVideo(step)].takeoffFrame = Some(frame),
                   ![StepVideo(step)].takeoffTime = Some(frame)]
    ELSE [m EXCEPT ![StepVideo(step)].landingFrame = Some(frame),
                   ![StepVideo(step)].landingTime = Some(frame)]

\* both times of every video are marked
CompleteMarkers(m) ==
  \A v \in Videos : m[v].takeoffTime # NULL /\ m[v].landingTime # NULL

\* handleMarkFrame: store the frame shown for the step's marker; complete
\* (App.handleWizardComplete: setManualMarkers, close) or go to the next
\* step, whose video is loaded afresh
handleMarkFrame ==
  /\ isOpen /\ videoLoaded
  /\ LET newMarkers == MarkedAt(wizardMarkers, currentStepIndex, currentFrame)
     IN  /\ wizardMarkers' = newMarkers
         /\ IF CompleteMarkers(newMarkers) \/ currentStepIndex >= 3
              THEN /\ manualMarkers' =
                        [present |-> TRUE, reference |-> newMarkers.reference,
                         user |-> newMarkers.user]
                   /\ isOpen' = FALSE
                   /\ UNCHANGED <<currentStepIndex, currentFrame, videoLoaded>>
              ELSE /\ currentStepIndex' = currentStepIndex + 1
                   /\ currentFrame' = 0
                   /\ videoLoaded' = FALSE
                   /\ UNCHANGED <<manualMarkers, isOpen>>
  /\ UNCHANGED <<trackerVars, engineVars, pureVars, serviceVars, analysis,
                 storeIsAnalyzing, analysisError, metrics, angles,
                 analysisProgress, videoVars, loopVars, historyVars>>

WizardClosed ==
  /\ isOpen = FALSE
  /\ currentStepIndex = 0
  /\ currentFrame = 0
  /\ videoLoaded = FALSE
  /\ wizardMarkers = EmptyMarkers

(***************************************************************************)
(* Specification of an analysis run                                        *)
(***************************************************************************)
NoSeries ==
  [kind |-> "none", n |-> 0, step |-> 0, start |-> 0, glitch |-> 0,
   renorm |-> TRUE, motion |-> <<>>]

TrackerIdle ==
  /\ series = NoSeries
  /\ tracked = {}
  /\ cumulative = [e \in Encodings |-> <<>>]

\* no run is going on and nothing is computed yet
RunQuiet ==
  /\ isAnalyzing = FALSE
  /\ abortController = "null"
  /\ runPc = "idle"
  /\ poseInitialized = FALSE
  /\ lastVideoTime = -1
  /\ storeIsAnalyzing = FALSE
  /\ analysisError = NULL
  /\ analysisProgress = 0
  /\ metrics = [v \in Videos |-> NULL]
  /\ angles = [v \in Videos |-> NULL]
  /\ currentTime = [v \in Videos |-> 0]
  /\ paused = [v \in Videos |-> TRUE]
  /\ ended = [v \in Videos |-> FALSE]
  /\ evPlaying = [v \in Videos |-> FALSE]
  /\ evEnded = [v \in Videos |-> FALSE]
  /\ listening = [v \in Videos |-> FALSE]
  /\ frameIndex = [v \in Videos |-> 0]
  /\ raf = [v \in Videos |-> 0]
  /\ awaiting = [v \in Videos |-> <<>>]
  /\ settled = [v \in Videos |-> "pending"]
  /\ reads = {}
  /\ raised = [v \in Videos |-> "none"]
  /\ cancelled = NULL
  /\ inferredAfterCancel = FALSE
  /\ lateReference = FALSE
  /\ sampled = [v \in Videos |-> <<>>]
  /\ threwAt = [v \in Videos |-> {}]

RunIdle ==
  /\ RunQuiet
  /\ analysis = [v \in Videos |-> NoAnalysis]

Init ==
  /\ TrackerIdle
  /\ WizardClosed
  /\ EngineIdle
  /\ PureIdle
  /\ RunIdle
  /\ duration \in Durations
  /\ manualMarkers = NoMarkers

Next ==
  \/ \E m \in MarkerInputs : setManualMarkers(m)
  \/ HandleStartAnalysis
  \/ InitializeSucceeded
  \/ InitializeFailed
  \/ ContinueAfterReference
  \/ DelayElapsed
  \/ ContinueAfterUser
  \/ AbortAnalysis
  \/ HandleStartAnalysisContinue
  \/ \E v \in Videos :
       \/ Tick(v)
       \/ PlaybackRestarted(v)
       \/ OnPlaying(v)
       \/ OnEnded(v)
       \/ ProcessFrameAborted(v)
       \/ ProcessFrameIdle(v)
       \/ ProcessFrameDetect(v)
       \/ ProcessFrameResume(v)

Spec == Init /\ [][Next]_vars

(***************************************************************************)
(* Specification of an analysis run whose pose model can throw             *)
(***************************************************************************)
ThrowInit ==
  /\ TrackerIdle
  /\ WizardClosed
  /\ EngineIdle
  /\ PureIdle
  /\ RunIdle
  /\ duration \in Durations
  /\ manualMarkers = NoMarkers

ThrowNext ==
  \/ Next
  \/ \E v \in Videos : ProcessFrameDetectThrows(v)

SpecThrow == ThrowInit /\ [][ThrowNext]_vars

(***************************************************************************)
(* Specification of the marking wizard                                     *)
(***************************************************************************)
WizardInit ==
  /\ TrackerIdle
  /\ WizardClosed
  /\ EngineIdle
  /\ PureIdle
  /\ RunIdle
  /\ duration \in Durations
  /\ manualMarkers = NoMarkers

WizardNext ==
  \/ OpenWizard
  \/ HandleLoadedMetadata
  \/ handlePreviousFrame
  \/ handleNextFrame
  \/ handleMarkFrame

SpecWizard == WizardInit /\ [][WizardNext]_vars

(***************************************************************************)
(* Specification of an analysis run with further calls during the run      *)
(***************************************************************************)
ReentryNext ==
  \/ Next
  \/ HandleStartAnalysisRejected

SpecReentry == Init /\ [][ReentryNext]_vars

(***************************************************************************)
(* Specification of an analysis run whose viewer can click the players,    *)
(* with the scheduling of the browser: a queued event, callback, timer or  *)
(* continuation runs eventually and a playing video advances; nothing      *)
(* obliges the viewer to act                                               *)
(***************************************************************************)
\* a video of at least two analysis frames: a pause can come between them
PauseInit ==
  /\ TrackerIdle
  /\ WizardClosed
  /\ EngineIdle
  /\ PureIdle
  /\ RunIdle
  /\ duration = MaxDuration + 1
  /\ manualMarkers = NoMarkers

PauseNext ==
  \/ Next
  \/ \E v \in Videos : TogglePlayback(v)

\* poseDetector.initialize() settles, one way or the other
InitializeSettles == InitializeSucceeded \/ InitializeFailed

Scheduling ==
  /\ WF_vars(InitializeSettles)
  /\ WF_vars(ContinueAfterReference)
  /\ WF_vars(DelayElapsed)
  /\ WF_vars(ContinueAfterUser)
  /\ WF_vars(HandleStartAnalysisContinue)
  /\ \A v \in Videos :
       /\ WF_vars(Tick(v))
       /\ WF_vars(OnPlaying(v))
       /\ WF_vars(OnEnded(v))
       /\ WF_vars(ProcessFrameAborted(v))
       /\ WF_vars(ProcessFrameIdle(v))
       /\ WF_vars(ProcessFrameDetect(v))
       /\ WF_vars(ProcessFrameResume(v))

SpecPause == PauseInit /\ [][PauseNext]_vars /\ Scheduling

(***************************************************************************)
(* Specification of analysis runs one after another, the pose model loaded *)
(* and the frames captured on time (the loop pauses such a video before it *)
(* ends)                                                                   *)
(***************************************************************************)
\* videos of RerunFrames analysis frames
RerunDuration == RerunFrames * TicksPerFrame

RerunInit ==
  /\ TrackerIdle
  /\ WizardClosed
  /\ EngineIdle
  /\ PureIdle
  /\ RunIdle
  /\ duration = RerunDuration
  /\ manualMarkers = NoMarkers

RerunNext ==
  \/ \E m \in MarkerInputs : setManualMarkers(m)
  \/ HandleStartAnalysis
  \/ InitializeSucceeded
  \/ HandleStartAnalysisAgain
  \/ ContinueAfterReference
  \/ DelayElapsed
  \/ ContinueAfterUser
  \/ AbortAnalysis
  \/ HandleStartAnalysisContinue
  \/ \E v \in Videos :
       \/ TickOnTime(v)
       \/ PlaybackRestarted(v)
       \/ OnPlaying(v)
       \/ ProcessFrameAborted(v)
       \/ ProcessFrameIdle(v)
       \/ ProcessFrameDetect(v)
       \/ ProcessFrameResume(v)

SpecRerun == RerunInit /\ [][RerunNext]_vars

(***************************************************************************)
(* Specification of the store's frame updates                              *)
(***************************************************************************)
StoreNext ==
  \E v \in Videos :
    \/ StoreInitialize(v)
    \/ StoreUpdateFrame(v)
    \/ StoreUpdateFrameWithTimestamp(v)

SpecStore == Init /\ [][StoreNext]_vars

(***************************************************************************)
(* Specification of the engines on a stored analysis                       *)
(***************************************************************************)
EngineInit ==
  /\ TrackerIdle
  /\ WizardClosed
  /\ EngineIdle
  /\ PureIdle
  /\ RunQuiet
  /\ duration = MaxDuration
  /\ \E a \in StoredAnalyses :
       analysis = [v \in Videos |-> IF v = EngineVideo THEN a ELSE NoAnalysis]
  /\ manualMarkers \in StoredMarkers

EngineNext ==
  \/ EngineAnalyzeAngles
  \/ EngineComputeMetrics

SpecEngine == EngineInit /\ [][EngineNext]_vars

(***************************************************************************)
(* Specification of the automatic detection harness                        *)
(***************************************************************************)
FusionInit ==
  /\ TrackerIdle
  /\ WizardClosed
  /\ EngineIdle
  /\ RunIdle
  /\ duration = MaxDuration
  /\ manualMarkers = NoMarkers
  /\ HeightIdle
  /\ AuxIdle
  /\ signals \in SignalInputs
  /\ candidates \in CandidateInputs(signals)
  /\ fused = NULL

FusionNext == FuseDetections

SpecFusion == FusionInit /\ [][FusionNext]_vars

(***************************************************************************)
(* Specification of the jump height harness                                *)
(***************************************************************************)
HeightInit ==
  /\ TrackerIdle
  /\ WizardClosed
  /\ EngineIdle
  /\ FusionIdle
  /\ AuxIdle
  /\ RunIdle
  /\ duration = MaxDuration
  /\ manualMarkers = NoMarkers
  /\ airTimeInput \in (0 - MaxAirTime)..MaxAirTime
  /\ heightOutputs = <<>>

HeightNext == CalculateJumpHeight

SpecHeight == HeightInit /\ [][HeightNext]_vars

(***************************************************************************)
(* Specification of the tracker harness                                    *)
(***************************************************************************)
TrackerInit ==
  /\ series \in SeriesInputs
  /\ tracked = {}
  /\ cumulative = [e \in Encodings |-> <<>>]
  /\ WizardClosed
  /\ EngineIdle
  /\ PureIdle
  /\ RunIdle
  /\ duration = MaxDuration
  /\ manualMarkers = NoMarkers

Track(e) ==
  /\ e \notin tracked
  /\ tracked' = tracked \cup {e}
  /\ cumulative' =
       [cumulative EXCEPT ![e] = calculateCumulativeRotation(AngleSeries(series, e))]
  /\ UNCHANGED <<series, wizardVars, engineVars, pureVars, runVars>>

TrackerNext == \E e \in Encodings : Track(e)

SpecTracker == TrackerInit /\ [][TrackerNext]_vars

(***************************************************************************)
(* Claims about the cumulative rotation tracker                            *)
(***************************************************************************)
FinalCumulative(e) == cumulative[e][Len(cumulative[e])].angle

\* C1: for every angle series of at least 2 samples (in either encoding),
\* the cumulative series starts at exactly 0 and the sign of its final value
\* equals the sign of the Pass-1 net rotation.
C1_FirstZeroAndSignMatchesNet ==
  \A e \in tracked :
    LET data == AngleSeries(series, e)
    IN  (Len(data) >= 2 /\ InEncodingRange(data, e)) =>
          /\ Len(cumulative[e]) = Len(data)
          /\ cumulative[e][1].angle = 0
          /\ Sign(FinalCumulative(e)) = Sign(NetRotation(data))

\* C1 witness: a clockwise series in which Pass 2 had to force a large positive raw
\* delta into the clockwise direction has been tracked
C1_Witness ==
  \E e \in tracked :
    LET data == AngleSeries(series, e)
    IN  /\ series.kind = "free"
        /\ NetRotation(data) < 0
        /\ FinalCumulative(e) < 0
        /\ \E i \in 2..Len(data) :
             data[i].angle - data[i - 1].angle > ROTATION_NOISE_THRESHOLD

TwoTurns(s) == s.kind = "uniform" /\ (s.n - 1) * s.step = 720

\* C2: a uniform CCW 2-turn series with one sample displaced by a -300
\* degree dropout still counts within 0.1 of 2.0 rotations
\* (|degrees - 720| <= 36).
C2_DropoutWithinTolerance ==
  ("deg360" \in tracked /\ TwoTurns(series) /\ series.glitch # 0) =>
     Abs(TotalRotationDegrees(cumulative["deg360"]) - 720) <= 36

\* no step of the motion is exactly half a turn, whose direction is undefined
NoHalfTurnStep(s) ==
  \A i \in 2..s.n : (s.motion[i] - s.motion[i - 1]) % 360 # 180

\* C3: the [0,360) and (-180,180] encodings of the same motion give the
\* same rotation count for every window: the cumulative-rotation
\* differences between any two sample positions have equal magnitude
\* (motions without a step of exactly half a turn).
C3_EncodingInvariant ==
  (tracked = Encodings /\ series.renorm /\ NoHalfTurnStep(series)) =>
     \A i, j \in 1..series.n :
        Abs(cumulative["deg360"][j].angle - cumulative["deg360"][i].angle)
          = Abs(cumulative["deg180"][j].angle - cumulative["deg180"][i].angle)

\* C4 (as stated): 30 samples with steps of +36 degrees give a final
\* cumulative rotation of +1080 degrees, a count of exactly 3.0.
C4_ThirtySamplesGiveThreeTurns ==
  ( /\ "deg360" \in tracked
    /\ series.kind = "uniform" /\ series.glitch = 0
    /\ series.step = 36 /\ series.n = 30 ) =>
     /\ FinalCumulative("deg360") = 1080
     /\ TotalRotationDegrees(cumulative["deg360"]) = 3 * 360

\* C4 (amended): a uniform CCW series of n samples with steps of +36
\* degrees ends at 36 * (n - 1) degrees: +1080 (exactly 3.0 rotations) for
\* 31 samples, i.e. 30 steps, and +1044 (2.9 rotations) for 30 samples.
C4_UniformStepsAccumulate ==
  ( /\ "deg360" \in tracked
    /\ series.kind = "uniform" /\ series.glitch = 0
    /\ series.step = 36 ) =>
     /\ FinalCumulative("deg360") = 36 * (series.n - 1)
     /\ TotalRotationDegrees(cumulative["deg360"]) = 36 * (series.n - 1)
     /\ (series.n = 31 => FinalCumulative("deg360") = 1080)
     /\ (series.n = 30 => FinalCumulative("deg360") = 1044)

\* C4 witness: the 31-sample series has been tracked and counts 3.0
C4_Witness ==
  /\ "deg360" \in tracked
  /\ series.kind = "uniform" /\ series.glitch = 0
  /\ series.step = 36 /\ series.n = 31
  /\ TotalRotationDegrees(cumulative["deg360"]) = 3 * 360

(***************************************************************************)
(* Claims about an analysis run                                            *)
(***************************************************************************)
AirTimeNotNegative(m) ==
  m = NULL \/ Val(m).airTime = NULL \/ Val(Val(m).airTime) >= 0

\* C5: markers whose takeoff is not before their landing never yield a
\* metrics bundle: the bundles an uncancelled run has stored when it has
\* finished (those of ManualJumpMetricsService.computeJumpMetrics) have no
\* negative air time.
C5_NoNegativeAirTime ==
  (runPc = "finished" /\ cancelled = NULL) =>
     \A v \in Videos : AirTimeNotNegative(metrics[v])

\* C6: every precondition violation the metrics engine raises in a run is
\* caught by analyzeBothVideos, which stores the all-null bundle for that
\* video; the run does not reject because of it.
C6_ViolationsCaughtAllNull ==
  \A v \in Videos :
    raised[v] # "none" =>
      /\ runPc \in {"returned", "finished"}
      /\ runPc = "returned" => metrics[v] = Some(AllNullMetrics)

\* C6 witness: the run has returned after the engine raised for a video
\* whose bundle is now all null
C6_Witness ==
  /\ runPc = "returned"
  /\ \E v \in Videos :
       /\ raised[v] \in {"InvalidFrameSequence", "AnalysisIncomplete"}
       /\ metrics[v] = Some(AllNullMetrics)
  /\ \E v \in Videos : raised[v] = "none" /\ metrics[v] # NULL

\* C7: angle extraction and the metrics engine are started only on a frame
\* store that is marked complete.
C7_ReadersOnlyOnComplete ==
  \A r \in reads : r.complete

\* C8: once cancellation has been requested no pose inference is started
\* and the video under analysis is never marked complete.
C8_CancelStopsAnalysis ==
  cancelled # NULL =>
    /\ ~inferredAfterCancel
    /\ ~analysis[Val(cancelled)].isComplete

InFlight == Len(awaiting["reference"]) + Len(awaiting["user"])

\* C9: at most one pose-inference call is in flight at any time: the result
\* of a call is stored before the next call is made, whatever the order of
\* display-refresh callbacks and 'playing' / 'ended' events.
C9_AtMostOneInferenceInFlight ==
  InFlight <= 1

\* C9 witness: an inference is in flight while a second processFrame chain
\* of the same video has its callback scheduled
C9_Witness ==
  \E v \in Videos : awaiting[v] # <<>> /\ raf[v] > 0

UserActivity ==
  \/ awaiting["user"] # <<>>
  \/ analysis["user"].exists /\ analysis["user"].processedFrames > 0

\* C10: the two analyses are sequential: nothing is inferred or written
\* for the user video before the reference loop has finished, and nothing
\* for the reference video after the user loop has started.
C10_Sequential ==
  /\ UserActivity => settled["reference"] = "resolved"
  /\ ~lateReference

(***************************************************************************)
(* Claims about the frame store                                            *)
(***************************************************************************)
\* samples of video v whose processFrame call has passed its await
StoredCount(v) == Len(sampled[v]) - Len(awaiting[v])

\* sample k of video v sits in slot k as detectPose returned it
InOwnSlot(v, k) ==
  /\ k <= Len(analysis[v].frames)
  /\ analysis[v].frames[k].processed
  /\ analysis[v].frames[k].worldLandmarks = sampled[v][k]
  /\ (sampled[v][k] = NULL) = (analysis[v].frames[k].landmarks = NULL)

C13_TimestampsMonotonic ==
  \A v \in Videos :
    \A i, j \in 1..Len(analysis[v].frames) :
      i < j => analysis[v].frames[i].timestamp <= analysis[v].frames[j].timestamp

\* the bundles a metrics engine computes from the stored markers and the
\* stored analysis of video v
EngineBundles(v) ==
  {Some(manualComputeJumpMetrics(manualMarkers, v, analysis[v])),
   RunMetrics(v).metrics} \ {NULL}

\* C14: the stored metrics of a video are at every point absent (null, or
\* the all-null bundle stored when the engine raised) or a bundle computed
\* by one metrics-engine call from the currently stored markers and that
\* video's completed analysis.
C14_MetricsFromCompletedSnapshot ==
  \A v \in Videos :
    (metrics[v] # NULL /\ metrics[v] # Some(AllNullMetrics)) =>
       /\ manualMarkers.present
       /\ analysis[v].exists /\ analysis[v].isComplete
       /\ metrics[v] \in EngineBundles(v)

\* the run has finished uncancelled and no callback has written a frame
\* after its loops
SettledRun ==
  /\ runPc = "finished"
  /\ cancelled = NULL
  /\ \A v \in Videos : analysis[v].processedFrames <= LoopTotalFrames

\* C16: the air time reported for a video is the analysis-frame timestamp
\* at the resolved landing index minus the one at the resolved takeoff
\* index (what JumpMetricsService.computeJumpMetrics returns), not the
\* difference of the marker timestamps.
C16_AirTimeFromAnalysisTimestamps ==
  SettledRun =>
    \A v \in Videos :
      RunMetrics(v).error = "none" =>
        /\ metrics[v] # NULL
        /\ Val(metrics[v]).airTime = Val(RunMetrics(v).metrics).airTime

(***************************************************************************)
(* Claims about the marking wizard                                         *)
(***************************************************************************)
\* C15: whenever a video's stored takeoffTime and landingTime are both
\* non-null, takeoffTime < landingTime and both marker frames are frame
\* indices of that video, whatever the wizard steps taken.
C15_MarkersOrderedAndValid ==
  manualMarkers.present =>
    \A v \in Videos :
      (manualMarkers[v].takeoffTime # NULL /\ manualMarkers[v].landingTime # NULL) =>
         /\ Val(manualMarkers[v].takeoffTime) < Val(manualMarkers[v].landingTime)
         /\ Val(manualMarkers[v].takeoffFrame) \in 0..(maxFrames - 1)
         /\ Val(manualMarkers[v].landingFrame) \in 0..(maxFrames - 1)

(***************************************************************************)
(* Claims about a pose model that throws                                   *)
(***************************************************************************)
\* the frame at sampling position k of video v is a stored null detection
StoredAsNull(v, k) ==
  /\ k <= Len(analysis[v].frames)
  /\ analysis[v].frames[k].processed
  /\ analysis[v].frames[k].landmarks = NULL
  /\ analysis[v].frames[k].worldLandmarks = NULL

\* the run has not been rejected or cut short: the loop of v has settled
\* only by completing the analysis (or on a cancellation request)
NotTerminated(v) ==
  /\ runPc # "threw"
  /\ analysisError = NULL
  /\ settled[v] = "resolved" => (analysis[v].isComplete \/ cancelled # NULL)

StoredCumulative == Val(angles[EngineVideo]).shoulderCumulativeRotation

LastFrameIndex == Len(analysis[EngineVideo].frames) - 1

WindowStart(m) == Max(0, Val(m.takeoffFrame) - 2)

WindowEnd(m) == Min(LastFrameIndex, Val(m.landingFrame) + 2)

\* the samples nearest to the window start among those at or after it
NearestAtOrAfter(cum, lo) ==
  {i \in 1..Len(cum) :
     /\ cum[i].frameIndex >= lo
     /\ \A j \in 1..Len(cum) :
          cum[j].frameIndex >= lo => cum[i].frameIndex <= cum[j].frameIndex}

\* the samples nearest to the window end among those at or before it
NearestAtOrBefore(cum, hi) ==
  {i \in 1..Len(cum) :
     /\ cum[i].frameIndex <= hi
     /\ \A j \in 1..Len(cum) :
          cum[j].frameIndex <= hi => cum[j].frameIndex <= cum[i].frameIndex}

\* the rotation of a bundle is taken between samples s and e
RotationBetween(m, cum, s, e) ==
  m.rotations = Some(Abs(cum[e].angle - cum[s].angle))

\* C17: whenever a bundle is computed and the cumulative series has a
\* sample at or after the clamped window start and one at or before the
\* clamped window end, the rotation is the difference between the nearest
\* such samples, and both lie inside the window
C17_RotationBetweenNearestSamples ==
  \A k \in 1..Len(metricsOutputs) :
    metricsOutputs[k].error = "none" =>
      LET m == Val(metricsOutputs[k].metrics)
          cum == StoredCumulative
          lo == WindowStart(m)
          hi == WindowEnd(m)
      IN  (NearestAtOrAfter(cum, lo) # {} /\ NearestAtOrBefore(cum, hi) # {}) =>
            \E s \in NearestAtOrAfter(cum, lo), e \in NearestAtOrBefore(cum, hi) :
              /\ RotationBetween(m, cum, s, e)
              /\ cum[s].frameIndex <= hi
              /\ cum[e].frameIndex >= lo

\* the valid shoulder-angle samples of the stored analysis
ValidShoulderSamples == ShoulderSamples(analysis[EngineVideo].frames, 1)

\* the markers resolve to a takeoff frame before the landing frame
MarkersResolveInOrder ==
  LET a == analysis[EngineVideo]
      mk == manualMarkers[EngineVideo]
  IN  Val(findClosestFrameByTime(a.frames, MarkerTime(Val(mk.takeoffFrame))))
        < Val(findClosestFrameByTime(a.frames, MarkerTime(Val(mk.landingFrame))))

\* a bundle without rotations that still reports air time, and jump height
\* whenever the air time is positive
ReportedWithoutRotation(r) ==
  /\ r.error = "none"
  /\ LET m == Val(r.metrics)
     IN  /\ m.rotations = NULL
         /\ m.airTime # NULL
         /\ Val(m.airTime) > 0 => m.maxHeight = Some(981 * Val(m.airTime) * Val(m.airTime))

\* C18: with fewer than 2 valid shoulder-angle samples every angle
\* analysis has an empty cumulative series, and every bundle computed from
\* markers that resolve in order has null rotations while air time and jump
\* height are reported
C18_NoRotationFromFewSamples ==
  Len(ValidShoulderSamples) < 2 =>
    /\ \A k \in 1..Len(angleOutputs) :
         angleOutputs[k].shoulderCumulativeRotation = <<>>
    /\ MarkersResolveInOrder =>
         /\ \A k \in 1..Len(metricsOutputs) : ReportedWithoutRotation(metricsOutputs[k])
         /\ metricsOutputs # <<>> =>
              metrics[EngineVideo] = metricsOutputs[Len(metricsOutputs)].metrics

DistanceToMarker(i, rawFrame) ==
  Abs(analysis[EngineVideo].frames[i + 1].timestamp - rawFrame)

\* analysis frame f is at least as close to the marker as every frame
ClosestToMarker(f, rawFrame) ==
  \A i \in 0..LastFrameIndex :
    DistanceToMarker(f, rawFrame) <= DistanceToMarker(i, rawFrame)

\* C20: in every bundle the takeoff and landing frames are analysis frames
\* whose timestamps are closest, over the whole sequence, to the marker
\* frame numbers taken at 30 frames per second
C20_ResolvedFrameClosestToMarkerTime ==
  \A k \in 1..Len(metricsOutputs) :
    metricsOutputs[k].error = "none" =>
      LET m == Val(metricsOutputs[k].metrics)
          mk == manualMarkers[EngineVideo]
      IN  /\ ClosestToMarker(Val(m.takeoffFrame), Val(mk.takeoffFrame))
          /\ ClosestToMarker(Val(m.landingFrame), Val(mk.landingFrame))

\* a bundle on late timestamps whose frames differ from the marker frame
\* numbers and lie strictly inside the sequence
C20_Witness ==
  /\ metricsOutputs # <<>>
  /\ metricsOutputs[1].error = "none"
  /\ analysis[EngineVideo].frames[1].timestamp > 0
  /\ LET m == Val(metricsOutputs[1].metrics)
         mk == manualMarkers[EngineVideo]
     IN  /\ Val(m.takeoffFrame) > 0
         /\ Val(m.landingFrame) < LastFrameIndex
         /\ Val(m.takeoffFrame) # Val(mk.takeoffFrame)
         /\ Val(m.landingFrame) # Val(mk.landingFrame)

(***************************************************************************)
(* Claims about gap filling                                                *)
(***************************************************************************)
\* the processed frames with world landmarks of the stored analysis
FramesWithWorldLandmarks == FilteredFrames(analysis[EngineVideo].frames, 1)

\* C21 as stated: every shoulder-rotation series has one sample per
\* processed frame with world landmarks
C21_OneSamplePerLandmarkFrame ==
  \A k \in 1..Len(angleOutputs) :
    Len(angleOutputs[k].shoulderRotation) = Len(FramesWithWorldLandmarks)

\* C21: when the channel has at least one sample of its own, every
\* shoulder-rotation series has one sample per processed frame with world
\* landmarks; a channel without any sample stays empty
C21_OneSamplePerLandmarkFrameOfNonEmptyChannel ==
  \A k \in 1..Len(angleOutputs) :
    Len(angleOutputs[k].shoulderRotation) =
      IF ValidShoulderSamples = <<>> THEN 0 ELSE Len(FramesWithWorldLandmarks)

\* a series in which a gap was filled
C21_Witness ==
  /\ angleOutputs # <<>>
  /\ Len(ValidShoulderSamples) >= 2
  /\ Len(ValidShoulderSamples) < Len(FramesWithWorldLandmarks)
  /\ Len(angleOutputs[1].shoulderRotation) = Len(FramesWithWorldLandmarks)

\* the frames of the stored analysis (1-based positions) with world
\* landmarks whose timestamp is t
LandmarkFramesAt(t) ==
  {i \in 1..Len(analysis[EngineVideo].frames) :
     /\ analysis[EngineVideo].frames[i].worldLandmarks # NULL
     /\ analysis[EngineVideo].frames[i].timestamp = t}

Between(x, a, b) == Min(a, b) <= x /\ x <= Max(a, b)

\* x is the angle of a valid sample, or lies between the angles of two
\* valid samples next to each other
FromNeighbouringValidSamples(x) ==
  \E i \in 1..Len(ValidShoulderSamples) :
    \E j \in {i, Min(i + 1, Len(ValidShoulderSamples))} :
      Between(x, ValidShoulderSamples[i].angle, ValidShoulderSamples[j].angle)

\* C22: every shoulder-rotation sample belongs to a frame with world
\* landmarks; it carries that frame's own shoulder angle when the frame has
\* shoulders, and otherwise a value taken from neighbouring valid samples
C22_MissingDataNeverZero ==
  \A k \in 1..Len(angleOutputs) :
    \A n \in 1..Len(angleOutputs[k].shoulderRotation) :
      LET x == angleOutputs[k].shoulderRotation[n]
      IN  /\ LandmarkFramesAt(x.timestamp) # {}
          /\ \A i \in LandmarkFramesAt(x.timestamp) :
               LET w == Val(analysis[EngineVideo].frames[i].worldLandmarks)
               IN  IF w = NoShoulders
                     THEN FromNeighbouringValidSamples(x.angle)
                     ELSE x.angle = w

\* a timeline that starts with a frame without landmarks and has a frame
\* without shoulders, whose gap is bridged by a value that is not 0
C22_Witness ==
  /\ angleOutputs # <<>>
  /\ analysis[EngineVideo].frames[1].worldLandmarks = NULL
  /\ \E n \in 1..Len(angleOutputs[1].shoulderRotation) :
       LET x == angleOutputs[1].shoulderRotation[n]
       IN  /\ \E i \in LandmarkFramesAt(x.timestamp) :
                analysis[EngineVideo].frames[i].worldLandmarks = Some(NoShoulders)
           /\ x.angle > 0

(***************************************************************************)
(* Claims about the automatic detection                                    *)
(***************************************************************************)
\* some method produced both a takeoff and a landing frame
SomeMethodSucceeded ==
  \E i \in 1..Len(candidates) :
    candidates[i].takeoffFrame # NULL /\ candidates[i].landingFrame # NULL

\* the flight from frame t to frame l lasts 0.1 to 1.5 s (3 to 45 units of
\* time) at the frame rate estimated from the signals
FlightTimeInRange(t, l) ==
  LET n == Len(signals.timestamps)
      span == signals.timestamps[n] - signals.timestamps[1]
  IN  3 * n <= (l - t) * span /\ (l - t) * span <= 45 * n

\* the hip is higher at the frame midway between t and l than before the
\* jump (5 signal frames before t, or at the first frame)
HeightIncreaseAtApex(t, l) ==
  LET ti == IndexOf(signals.frameIndices, t)
      li == IndexOf(signals.frameIndices, l)
  IN  /\ ti >= 0
      /\ li >= 0
      /\ signals.hipHeights[(ti + li) \div 2 + 1]
           > signals.hipHeights[IF ti > 5 THEN ti - 4 ELSE 1]

\* C23: fuseDetections returns both frames or neither, and returns a pair
\* only if some method succeeded, the flight time of the pair is within
\* 0.1 to 1.5 s and the hip height increases at its apex
C23_FusedPairValidated ==
  fused # NULL =>
    LET r == Val(fused)
    IN  /\ (r.takeoffFrame = NULL) = (r.landingFrame = NULL)
        /\ r.takeoffFrame # NULL =>
             /\ SomeMethodSucceeded
             /\ FlightTimeInRange(Val(r.takeoffFrame), Val(r.landingFrame))
             /\ HeightIncreaseAtApex(Val(r.takeoffFrame), Val(r.landingFrame))

(***************************************************************************)
(* Claims about the jump height                                            *)
(***************************************************************************)
\* heights are kept in units of 1/720000 m: 9.81 (t/30)^2 / 8 metres is
\* 981 t^2 / (100 * 900 * 8) metres
HeightUnitsPerMetre == 100 * 900 * 8

\* C24: the height is absent for a non-positive air time, 9.81 t^2 / 8
\* metres for a positive air time of t seconds, and 1.22625 m for 1.0 s
C24_JumpHeightFormula ==
  \A k \in 1..Len(heightOutputs) :
    /\ (airTimeInput <= 0) = (heightOutputs[k] = NULL)
    /\ airTimeInput > 0 =>
         Val(heightOutputs[k]) * ((100 * 900 * 8) \div HeightUnitsPerMetre)
           = 981 * airTimeInput * airTimeInput
    /\ airTimeInput = 30 =>
         Val(heightOutputs[k]) * 1000 = 122625 * (HeightUnitsPerMetre \div 100)

\* the height of an air time of 1.0 s has been computed
C24_Witness ==
  /\ airTimeInput = 30
  /\ heightOutputs # <<>>
  /\ heightOutputs[1] # NULL

(***************************************************************************)
(* Claims about the service's running flag                                 *)
(***************************************************************************)
RunInProgress == runPc \in {"init", "reference", "delay", "user"}

RunEnded == runPc \in {"returned", "threw", "finished"}

\* C25: while a run is in progress the service's flag is set, whatever
\* calls were rejected meanwhile; once the run has ended (returned, thrown
\* or cancelled) the flag is false and no controller is left; and a
\* rejected call changes nothing of the service, the store or the run
C25_OneRunAtATime ==
  /\ [](RunInProgress => isAnalyzing /\ abortController # "null")
  /\ []((RunEnded \/ runPc = "idle") => ~isAnalyzing /\ abortController = "null")
  /\ [][rejected' # rejected => UNCHANGED runVars]_vars

\* a call was rejected during a run, and the run has gone on to its end
C25_Witness ==
  /\ rejected
  /\ runPc = "returned"
  /\ ~isAnalyzing


(***************************************************************************)
(* Claims about the termination of a run                                   *)
(***************************************************************************)
\* the run is over for the service and for the store
RunTerminated == RunEnded /\ ~isAnalyzing /\ ~storeIsAnalyzing

\* C26: every started analysis run eventually terminates: its promise
\* settles and the service's running flag and the store's isAnalyzing flag
\* are both false, also after a cancellation or after the video paused or
\* ended with frames still missing
C26_RunTerminates == RunInProgress ~> RunTerminated

(***************************************************************************)
(* Claims about the store's frame sequences                                *)
(***************************************************************************)
\* the slots of video v that have been processed
ProcessedSlots(v) ==
  {i \in 1..Len(analysis[v].frames) : analysis[v].frames[i].processed}

\* C27: whenever a video's analysis is marked complete, every slot of its
\* frame sequence has been processed: processedFrames = totalFrames and no
\* frame with processed = false remains
C27_CompleteMeansAllProcessed ==
  \A v \in Videos :
    (analysis[v].exists /\ analysis[v].isComplete) =>
      /\ analysis[v].processedFrames = analysis[v].totalFrames
      /\ ProcessedSlots(v) = 1..Len(analysis[v].frames)

\* the same for a video that played to the last expected frame, of a length
\* that is a whole number of analysis frames
C27_CompleteAfterLastFrame ==
  \A v \in Videos :
    (/\ analysis[v].exists /\ analysis[v].isComplete
     /\ duration % TicksPerFrame = 0
     /\ frameIndex[v] >= LoopTotalFrames) =>
      /\ analysis[v].processedFrames = analysis[v].totalFrames
      /\ ProcessedSlots(v) = 1..Len(analysis[v].frames)

\* C28: after any sequence of frame updates, repeated ones and ones at or
\* beyond the sequence length included, each slot has been written at most
\* once and processedFrames is the number of processed slots, so never more
\* than totalFrames
C28_SlotsWrittenOnceAndCounted ==
  \A v \in Videos :
    analysis[v].exists =>
      /\ Len(frameUpdates[v].written) = Len(analysis[v].frames)
      /\ \A i \in 1..Len(analysis[v].frames) :
           /\ frameUpdates[v].written[i] <= 1
           /\ analysis[v].frames[i].processed = (frameUpdates[v].written[i] = 1)
      /\ analysis[v].processedFrames = Cardinality(ProcessedSlots(v))
      /\ analysis[v].processedFrames <= analysis[v].totalFrames

\* a video with every slot written, after an update of a processed slot and
\* an update beyond the sequence
C28_Witness ==
  \E v \in Videos :
    /\ analysis[v].exists
    /\ Len(analysis[v].frames) > 1
    /\ ProcessedSlots(v) = 1..Len(analysis[v].frames)
    /\ frameUpdates[v].repeated
    /\ frameUpdates[v].beyond

(***************************************************************************)
(* Claims about the stored derived data                                    *)
(***************************************************************************)
\* metrics or angle data of video v are stored
DerivedDataStored(v) == metrics[v] # NULL \/ angles[v] # NULL

\* C29: stored derived data never outlives its inputs: whenever a video's
\* metrics or angle data are non-null, its analysis is present and complete
\* (both videos stay loaded throughout a run and after it)
C29_DerivedDataHasCompleteAnalysis ==
  \A v \in Videos :
    DerivedDataStored(v) => analysis[v].exists /\ analysis[v].isComplete

\* the same for runs that nobody cancelled
C29_DerivedDataOfUncancelledRun ==
  \A v \in Videos :
    (DerivedDataStored(v) /\ cancelled = NULL) =>
      analysis[v].exists /\ analysis[v].isComplete

(***************************************************************************)
(* Claims about the reported progress                                      *)
(***************************************************************************)
\* C30: during one analysis run the reported analysisProgress stays within
\* 0..100 and never decreases from one frame update to the next, whether or
\* not analyses of an earlier run are in the store when the run starts
C30_ProgressInRangeAndMonotonic ==
  /\ [](analysisProgress \in 0..100)
  /\ [][RunInProgress => analysisProgress' >= analysisProgress]_vars

\* the same for the first run, which starts on an empty store
C30_ProgressOfFirstRun ==
  /\ [](analysisProgress \in 0..100)
  /\ [][(RunInProgress /\ reruns = 0) => analysisProgress' >= analysisProgress]_vars

=============================================================================
